---- MODULE Spec2Model ----
(***************************************************************************)
(* Model of the Jarvis v2 tool-invocation orchestrator:                    *)
(*   app/brain.py   (Brain.think, Brain._request_approval, conversation    *)
(*                   life cycle)                                           *)
(*   app/router.py  (_resolve_db_tool, check_approval_needed,              *)
(*                   execute_tool, parse_tool_call, format_tool_result)    *)
(*   memory/memory.py (conversations, messages, tools, tool_runs tables)   *)
(*                                                                         *)
(* Brain.think is cut at its suspension points: the model call, the        *)
(* approval callback and the provider call.  Each action below is the code *)
(* that runs between two suspension points.                                *)
(***************************************************************************)
EXTENDS Integers, Sequences, FiniteSets, TLC

\* ------------------------------------------------------------------------
\* Bounds of the model
\* ------------------------------------------------------------------------
MaxTurns == 2          \* calls of Brain.think in one behaviour
MaxDeviations == 1     \* unusual replies, refusals and failures in one behaviour
MaxWrites == 2         \* writes to memory_items and user_preferences in one behaviour
MaxAudit == 5          \* writes to tool_runs and approvals made through the store alone

\* ------------------------------------------------------------------------
\* Program constants
\* ------------------------------------------------------------------------
max_iterations == 5    \* brain.py:174
TrimAbove == 60        \* brain.py:276
TrimKeep == 30         \* brain.py:277
KeyMinImportance == 4  \* memory.py:549
KeyLimit == 10         \* memory.py:549

\* Tool requests the model may make in one behaviour: enough to reach the
\* iteration cap in one turn and to ask once more.
MaxRequests == max_iterations + 1

\* ------------------------------------------------------------------------
\* Values
\* ------------------------------------------------------------------------
Absent == "<absent>"   \* a key that is not in a dict / a None value
None == 0              \* None for identifiers (identifiers are 1, 2, ...)

\* An argument dict of a tool call: the keys the modelled tools read.
EmptyDict == [action |-> Absent, command |-> Absent]

DictGet(d, k, default) == IF d[k] = Absent THEN default ELSE d[k]

\* dict.pop("action", default): the dict without its action key
DictPopAction(d) == [d EXCEPT !.action = Absent]

\* json.dumps / json.loads on argument dicts.  A JSON text either encodes
\* an object or is not valid JSON at all.
json_dumps(d) == [valid |-> TRUE, obj |-> d]

JsonDecodes(text) == text.valid

json_loads(text) == text.obj

GarbageText == [valid |-> FALSE, obj |-> EmptyDict]

\* Message contents.  Python builds them by string formatting; here a content
\* is the record of the parts that the formatting puts together.
Content(kind, tool, text) == [kind |-> kind, tool |-> tool, text |-> text]

NoContent == Content("none", "", "")

Text(s) == Content("text", "", s)

Placeholder == Text("(No response)")

DenialContent == Content("text", "", "User denied this action.")

\* ------------------------------------------------------------------------
\* Tool registry (router.py)
\* ------------------------------------------------------------------------
MemoryActions == {"write", "query", "semantic", "pin", "update", "delete", "stats"}

MEMORY_ACTION_TO_DB(a) ==
    CASE a = "write"    -> "memory_write"
      [] a = "query"    -> "memory_query"
      [] a = "semantic" -> "memory_query"
      [] a = "pin"      -> "memory_pin"
      [] a = "update"   -> "memory_write"
      [] a = "delete"   -> "memory_forget"
      [] a = "stats"    -> "memory_query"

MacActions == {"open_app", "open_url", "notify", "screenshot"}

MAC_ACTION_TO_DB(a) ==
    CASE a = "open_app"   -> "open_app"
      [] a = "open_url"   -> "open_url"
      [] a = "notify"     -> "mac_control"
      [] a = "screenshot" -> "mac_control"

LLM_TO_DB_TOOL(n) ==
    CASE n = "shell"   -> "shell"
      [] n = "notes"   -> "notes"
      [] n = "saviynt" -> "saviynt_query"
      [] n = "mac"     -> "mac_control"
      [] n = "memory"  -> "memory_write"
      [] OTHER         -> n

_resolve_db_tool(llm_tool_name, arguments) ==
    IF llm_tool_name = "memory"
    THEN LET action == DictGet(arguments, "action", "query")
         IN  IF action \in MemoryActions THEN MEMORY_ACTION_TO_DB(action)
                                         ELSE "memory_query"
    ELSE IF llm_tool_name = "mac"
    THEN LET action == DictGet(arguments, "action", "mac_control")
         IN  IF action \in MacActions THEN MAC_ACTION_TO_DB(action)
                                      ELSE "mac_control"
    ELSE LLM_TO_DB_TOOL(llm_tool_name)

\* f"tool_{db_tool_name}"
ToolId(db_tool_name) == <<"tool_", db_tool_name>>

ToolRow(name, confirm, enabled, category, risk) ==
    [tool_id |-> ToolId(name), tool_name |-> name, tool_category |-> category,
     risk_level |-> risk, requires_confirm |-> confirm, enabled |-> enabled]

\* SELECT * FROM tools WHERE tool_name = ? AND enabled = 1  (fetchone).
\* The result is the set of the rows found: empty for None.
get_tool_by_name(table, tool_name) ==
    LET found == {r \in table : r.tool_name = tool_name /\ r.enabled}
    IN  IF found = {} THEN {} ELSE {CHOOSE r \in found : TRUE}

\* (mutation of InsertOrIgnoreTool: INSERT OR REPLACE)
InsertOrIgnoreTool_Replace(table, row) ==
    {r \in table : r.tool_id # row.tool_id} \cup {row}

\* (mutation of InsertOrIgnoreTool: nothing is inserted)
InsertOrIgnoreTool_Never(table, row) == table

\* INSERT OR IGNORE INTO tools ...: no row is added when a row with the same
\* primary key (tool_id) is already there.
InsertOrIgnoreTool(table, row) ==
    IF \E r \in table : r.tool_id = row.tool_id
    THEN table
    ELSE table \cup {row}

\* check_approval_needed: <<needs_approval, tool_info>>
check_approval_needed(table, llm_tool_name, arguments) ==
    LET db_tool_name == _resolve_db_tool(llm_tool_name, arguments)
        tool_info == get_tool_by_name(table, db_tool_name)
    IN  IF tool_info # {} /\ (\E r \in tool_info : r.requires_confirm)
        THEN <<TRUE, tool_info>>
        ELSE <<FALSE, tool_info>>

\* (mutation of parse_tool_call: the last tool call of the reply is taken)
parse_tool_call_Last(m) ==
    IF m.tool_calls = <<>>
    THEN [ok |-> FALSE, tool_name |-> "", arguments |-> EmptyDict, call_id |-> None]
    ELSE LET tool_call == m.tool_calls[Len(m.tool_calls)]
         IN  [ok |-> TRUE,
              tool_name |-> tool_call.name,
              arguments |-> IF JsonDecodes(tool_call.arguments)
                            THEN json_loads(tool_call.arguments)
                            ELSE EmptyDict,
              call_id |-> tool_call.id]

\* parse_tool_call: the first tool call of the reply; a payload that is not
\* valid JSON is replaced by the empty dict.
NoParse == [ok |-> FALSE, tool_name |-> "", arguments |-> EmptyDict, call_id |-> None]

parse_tool_call(m) ==
    IF m.tool_calls = <<>>
    THEN NoParse
    ELSE LET tool_call == Head(m.tool_calls)
         IN  [ok |-> TRUE,
              tool_name |-> tool_call.name,
              arguments |-> IF JsonDecodes(tool_call.arguments)
                            THEN json_loads(tool_call.arguments)
                            ELSE EmptyDict,
              call_id |-> tool_call.id]

\* Results of the execution step of execute_tool (router.py:152-170).  A
\* provider returns a result ("ok") or raises an Exception ("raise"); the
\* failure result that is returned without an exception is the one of the
\* unknown tool.
ProviderTools == {"shell", "notes", "saviynt", "mac", "memory"}

Result(success, error) == [success |-> success, error |-> error]

\* (mutation of ProviderResult: an exception of the provider is not turned
\* into a failure result)
ProviderResult_RaiseIsSuccess(tn, outcome) ==
    IF tn \notin ProviderTools
    THEN Result(FALSE, "Unknown tool")
    ELSE CASE outcome = "ok"    -> Result(TRUE, Absent)
           [] outcome = "raise" -> Result(TRUE, Absent)

ProviderResult(tn, outcome) ==
    IF tn \notin ProviderTools
    THEN Result(FALSE, "Unknown tool")
    ELSE CASE outcome = "ok"    -> Result(TRUE, Absent)
           [] outcome = "raise" -> Result(FALSE, "Tool execution error")

\* execute_tool pops the action key of the dict it was given, except for
\* shell and for unknown tools.
ArgsAfterProvider(tn, args) ==
    IF tn \in {"notes", "saviynt", "mac", "memory"} THEN DictPopAction(args) ELSE args

\* (mutation of CallerArguments: execute_tool is given the dict itself, so
\* that think sees what execute_tool did to it)
CallerArguments_Aliased(arguments, callee_arguments) == callee_arguments

\* brain.py:218: execute_tool is given arguments.copy(); what it does to its
\* dict does not reach the dict that think goes on to serialize.
CallerArguments(arguments, callee_arguments) == arguments

\* "success" if result.get("success", False) else "failed"
RunStatus(result) == IF result.success THEN "success" ELSE "failed"

\* format_tool_result
format_tool_result(tn, result) ==
    IF ~result.success
    THEN Content("error", tn, result.error)
    ELSE Content("result", tn, "")

\* ------------------------------------------------------------------------
\* Brain (brain.py)
\* ------------------------------------------------------------------------

\* (mutation of _request_approval: a missing callback counts as a yes)
_request_approval_DefaultYes(has_callback, answer) ==
    IF ~has_callback THEN TRUE ELSE answer

\* Brain._request_approval: without a callback the answer is False; with one
\* the answer is the callback's.
_request_approval(has_callback, answer) ==
    IF ~has_callback THEN FALSE ELSE answer

\* (mutation of LoopCond: off by one)
LoopCond_OffByOne(m, it) == m.tool_calls # <<>> /\ it <= max_iterations

\* brain.py:177, the loop condition
LoopCond(m, it) == m.tool_calls # <<>> /\ it < max_iterations

\* (mutations of GateOpen: the answer is not looked at; the answer is read
\* the wrong way round)
GateOpen_Always(needs, appr) == TRUE

GateOpen_Inverted(needs, appr) == ~needs \/ ~appr

\* brain.py:188-190: the call goes on to execute_tool unless it needed
\* approval and was not approved
GateOpen(needs, appr) == ~needs \/ appr

\* (mutation of FinalText: an empty reply text is returned as it is)
FinalText_NoPlaceholder(m) == Text(m.content)

\* brain.py:267
FinalText(m) == IF m.content = "" THEN Placeholder ELSE Text(m.content)

\* (mutation of Trim: the transcript is never cut)
Trim_Never(h) == h

\* brain.py:276-277
Trim(h) == IF Len(h) > TrimAbove THEN SubSeq(h, Len(h) - TrimKeep + 1, Len(h)) ELSE h

\* Transcript entries (chat_history) and persisted rows (messages table).
Entry(role, content, cid, tn, input) ==
    [role |-> role, content |-> content, tool_call_id |-> cid,
     tool_name |-> tn, tool_input |-> input]

NoInput == [valid |-> FALSE, obj |-> EmptyDict]

UserEntry(text) == Entry("user", Text(text), None, "", NoInput)

AssistantEntry(content) == Entry("assistant", content, None, "", NoInput)

ToolCallEntry(cid, tn, args) == Entry("assistant", NoContent, cid, tn, json_dumps(args))

ToolResultEntry(cid, content) == Entry("tool", content, cid, "", NoInput)

Row(conv, role, content, ctype, cid, tn, input) ==
    [conversation_id |-> conv, role |-> role, content |-> content,
     content_type |-> ctype, tool_call_id |-> cid, tool_name |-> tn,
     tool_input |-> input]

\* ------------------------------------------------------------------------
\* State
\* ------------------------------------------------------------------------
VARIABLES
    tools,              \* tools table: a set of rows
    conversations,      \* conversations table: conversations[c].ended
    messages,           \* messages table, in creation order
    tool_runs,          \* tool_runs table; the tool_run_id is the index
    approval_callback,  \* TRUE iff Brain was built with an approval callback
    conversation_id,    \* Brain.conversation_id (None or an identifier)
    chat_history,       \* Brain.chat_history, the in-memory transcript
    last_tool_run_id,   \* Brain._last_tool_run_id
    last_message_id,    \* Brain._last_message_id
    pc,                 \* where Brain.think stands
    iteration,          \* think: iteration
    message,            \* think: message, the last model reply of the last think
    parsed,             \* think: (tool_name, arguments, call_id)
    needs_approval,     \* think: needs_approval
    approved,           \* think: approved
    exec_arguments,     \* execute_tool: arguments (the dict it was given)
    tool_run_id,        \* execute_tool: tool_run_id
    returned,           \* how the last think ended and with what text
    log,                \* history: counters and the events of the current think
    memory_items,       \* memory_items table, in creation order
    user_preferences,   \* user_preferences table: a set of rows
    approvals,          \* approvals table; the approval_id is the index
    call,               \* history: the last call made from outside the Brain
    callers,            \* the callers that drive a conversation of their own each,
                        \* side by side: what each one holds and where it stands
    feedback            \* feedback table, in creation order

vars == <<tools, conversations, messages, tool_runs, approval_callback,
          conversation_id, chat_history, last_tool_run_id, last_message_id,
          pc, iteration, message, parsed, needs_approval, approved,
          exec_arguments, tool_run_id, returned, log,
          memory_items, user_preferences, approvals, call, callers, feedback>>

\* The tables that the modelled steps of Brain.think do not write (the
\* providers are black boxes), and the history of the calls made next to it
aside == <<memory_items, user_preferences, approvals, call, callers, feedback>>

store == <<tools, conversations, messages, tool_runs>>

locals == <<iteration, message, parsed, needs_approval, approved,
            exec_arguments, tool_run_id>>

\* ------------------------------------------------------------------------
\* Inputs
\* ------------------------------------------------------------------------
UserInputs == {"hello"}

ReplyTexts == {"", "answer"}

ShellArgs == [action |-> Absent, command |-> "ls"]

MemoryDeleteArgs == [action |-> "delete", command |-> Absent]

\* The tool requests a model reply may carry.
ToolRequests ==
    { [name |-> "shell",    arguments |-> json_dumps(ShellArgs)],
      [name |-> "shell",    arguments |-> GarbageText],
      [name |-> "memory",   arguments |-> json_dumps(MemoryDeleteArgs)],
      [name |-> "teleport", arguments |-> json_dumps(EmptyDict)] }

ToolCall(id, req) == [id |-> id, name |-> req.name, arguments |-> req.arguments]

Reply(content, calls) == [content |-> content, tool_calls |-> calls]

NoMessage == Reply("", <<>>)

\* The registry a run starts from: the seeded descriptors of the governance
\* keys "shell" and "memory_forget".  The one of "shell" is missing, or
\* enabled with or without the confirmation flag, or disabled with the flag
\* (a disabled descriptor without the flag acts as an enabled one without
\* it: the lookup finds none, the gate lets the call pass).  No descriptor is
\* seeded for "teleport".
SeedRows(name) ==
    {{}} \cup {{ToolRow(name, c, TRUE, "seed", "medium")} : c \in BOOLEAN}
         \cup {{ToolRow(name, TRUE, FALSE, "seed", "medium")}}

InitTools == {a \cup {ToolRow("memory_forget", TRUE, TRUE, "seed", "medium")} :
                  a \in SeedRows("shell")}

NoError == ""

NoReturn == [how |-> "none", text |-> NoContent, error |-> NoError]

\* think ended with an exception
Raised(error) == [how |-> "raised", text |-> NoContent, error |-> error]

\* The history kept next to the program state: the counters that bound a
\* behaviour (turns, requests, deviations) and, for the current call of
\* think, what happened in it.
NewLog == [turns |-> 0,         \* calls of think so far
           requests |-> 0,      \* model replies with a tool request so far
           deviations |-> 0,    \* unusual replies, refusals and failures so far
           model_calls |-> 0,   \* model replies so far
           acted |-> 0,         \* iterations of this think that denied or executed
           steps |-> 0,         \* model replies, approval answers and provider
                                \* returns that this think has received
           asks |-> 0,          \* invocations of the approval callback by this think
           executes |-> 0,      \* provider calls that this think has started
           asked |-> FALSE,     \* the approval callback was invoked in this iteration
           outcome |-> "",      \* how the provider call just made ended
           failed |-> FALSE,    \* a model call of this think failed
           runs0 |-> 0,         \* rows of tool_runs when this think started
           msgs0 |-> 0,         \* rows of messages when this think started
           trimmed |-> FALSE,   \* the transcript of the conversation was trimmed
           writes |-> 0,        \* calls that write memory_items or
                                \* user_preferences so far
           clock |-> 0]         \* the time of the last write to a row of these
                                \* tables; also the source of the identifiers of
                                \* memory_items

NoCall == [fn |-> "", args |-> <<>>, result |-> <<>>]

AsideInit ==
    /\ memory_items = <<>>
    /\ user_preferences = {}
    /\ approvals = <<>>
    /\ call = NoCall
    /\ callers = <<>>
    /\ feedback = <<>>

Init ==
    /\ tools \in InitTools
    /\ conversations = <<>>
    /\ messages = <<>>
    /\ tool_runs = <<>>
    /\ approval_callback \in BOOLEAN
    /\ conversation_id = None
    /\ chat_history = <<>>
    /\ last_tool_run_id = None
    /\ last_message_id = None
    /\ pc = "idle"
    /\ iteration = 0
    /\ message = NoMessage
    /\ parsed = NoParse
    /\ needs_approval = FALSE
    /\ approved = FALSE
    /\ exec_arguments = EmptyDict
    /\ tool_run_id = None
    /\ returned = NoReturn
    /\ log = NewLog
    /\ AsideInit

\* ------------------------------------------------------------------------
\* Store operations (memory.py)
\* ------------------------------------------------------------------------
\* create_conversation: the table with one more conversation, still open
create_conversation(convs) == Append(convs, [ended |-> FALSE])

\* end_conversation: UPDATE conversations SET ended_at = now WHERE id = c
end_conversation(convs, c) ==
    [i \in DOMAIN convs |-> IF i = c THEN [convs[i] EXCEPT !.ended = TRUE] ELSE convs[i]]

\* (mutation of add_message: the row is not inserted)
add_message_Lost(msgs, row) == msgs

\* add_message: INSERT INTO messages; the new message_id is the new length
add_message(msgs, row) == Append(msgs, row)

NoResult == Result(FALSE, Absent)

\* (mutation of create_tool_run: the row is inserted as already finalized)
create_tool_run_Finished(runs, conv, tool_id, input_json) ==
    Append(runs, [conversation_id |-> conv, tool_id |-> tool_id,
                  status |-> "success", input_json |-> input_json,
                  output_json |-> NoResult, error_text |-> Absent,
                  finished |-> TRUE])

\* create_tool_run: INSERT INTO tool_runs ... status = "running"
create_tool_run(runs, conv, tool_id, input_json) ==
    Append(runs, [conversation_id |-> conv, tool_id |-> tool_id,
                  status |-> "running", input_json |-> input_json,
                  output_json |-> NoResult, error_text |-> Absent,
                  finished |-> FALSE])

\* (mutation of complete_tool_run: the UPDATE matches no row)
complete_tool_run_NoRow(runs, id, status, output_json, error_text) == runs

\* (mutation of complete_tool_run: the UPDATE is keyed by the status, and
\* finalizes every run that is still running)
complete_tool_run_AllRunning(runs, id, status, output_json, error_text) ==
    [i \in DOMAIN runs |->
        IF runs[i].status = "running"
        THEN [runs[i] EXCEPT !.status = status, !.output_json = output_json,
                             !.error_text = error_text, !.finished = TRUE]
        ELSE runs[i]]

\* complete_tool_run: UPDATE tool_runs SET ... WHERE tool_run_id = id
complete_tool_run(runs, id, status, output_json, error_text) ==
    [i \in DOMAIN runs |->
        IF i = id
        THEN [runs[i] EXCEPT !.status = status, !.output_json = output_json,
                             !.error_text = error_text, !.finished = TRUE]
        ELSE runs[i]]

\* ------------------------------------------------------------------------
\* Brain: conversation life cycle
\* ------------------------------------------------------------------------
\* (mutation of EndCurrentConversation: the Brain keeps the identifier of the
\* conversation it has ended)
EndCurrentConversation_KeepsId ==
    /\ pc = "idle"
    /\ conversation_id # None
    /\ log.deviations < MaxDeviations
    /\ conversations' = end_conversation(conversations, conversation_id)
    /\ chat_history' = <<>>
    /\ log' = [log EXCEPT !.trimmed = FALSE, !.deviations = @ + 1]
    /\ UNCHANGED <<tools, messages, tool_runs, approval_callback, conversation_id,
                   last_tool_run_id, last_message_id, pc, locals, returned>>
    /\ UNCHANGED aside

\* Brain.end_current_conversation
EndCurrentConversation ==
    /\ pc = "idle"
    /\ conversation_id # None
    /\ log.deviations < MaxDeviations
    /\ conversations' = end_conversation(conversations, conversation_id)
    /\ conversation_id' = None
    /\ chat_history' = <<>>
    /\ log' = [log EXCEPT !.trimmed = FALSE, !.deviations = @ + 1]
    /\ UNCHANGED <<tools, messages, tool_runs, approval_callback, last_tool_run_id,
                   last_message_id, pc, locals, returned>>
    /\ UNCHANGED aside

\* ------------------------------------------------------------------------
\* Brain.think
\* ------------------------------------------------------------------------
ResetLocals ==
    /\ iteration' = 0
    /\ parsed' = NoParse
    /\ needs_approval' = FALSE
    /\ approved' = FALSE
    /\ exec_arguments' = EmptyDict
    /\ tool_run_id' = None

\* brain.py:145-169: open a conversation if there is none, persist the user
\* message, append it to the transcript, issue the first model call.
Think(user_input) ==
    /\ pc = "idle"
    /\ log.turns < MaxTurns
    /\ LET fresh == conversation_id = None
           convs == IF fresh THEN create_conversation(conversations) ELSE conversations
           conv  == IF fresh THEN Len(convs) ELSE conversation_id
           hist  == IF fresh THEN <<>> ELSE chat_history
       IN  /\ conversations' = convs
           /\ conversation_id' = conv
           /\ last_tool_run_id' = IF fresh THEN None ELSE last_tool_run_id
           /\ last_message_id' = IF fresh THEN None ELSE last_message_id
           /\ messages' = add_message(messages,
                              Row(conv, "user", Text(user_input), "text", None, "", NoInput))
           /\ chat_history' = Append(hist, UserEntry(user_input))
           /\ log' = [log EXCEPT !.turns = @ + 1, !.acted = 0, !.asked = FALSE,
                                 !.steps = 0, !.asks = 0, !.executes = 0,
                                 !.outcome = "", !.failed = FALSE,
                                 !.runs0 = Len(tool_runs),
                                 !.msgs0 = Len(messages),
                                 !.trimmed = IF fresh THEN FALSE ELSE @]
    /\ pc' = "model"
    /\ message' = NoMessage
    /\ ResetLocals
    /\ returned' = NoReturn
    /\ UNCHANGED <<tools, tool_runs, approval_callback>>
    /\ UNCHANGED aside

\* The plain replies: a final answer with a text, or a request for the shell
\* with well-formed arguments and no text.  Every other reply is unusual.
PlainRequest == [name |-> "shell", arguments |-> json_dumps(ShellArgs)]

\* A reply may carry several tool requests: the second one of such a reply
\* asks for a memory deletion, under a call id of its own.
SecondRequest == [name |-> "memory", arguments |-> json_dumps(MemoryDeleteArgs)]

SecondId(n) == 0 - n

\* The replies the model may give to the call number n
Replies(n) ==
    {Reply(c, <<>>) : c \in ReplyTexts}
    \cup {Reply("", <<ToolCall(n, r)>>) : r \in ToolRequests}
    \cup {Reply(c, <<ToolCall(n, PlainRequest)>>) : c \in ReplyTexts}
    \cup {Reply("", <<ToolCall(n, PlainRequest), ToolCall(SecondId(n), SecondRequest)>>)}

Unusual(reply) ==
    IF reply.tool_calls = <<>>
    THEN reply.content = ""
    ELSE reply # Reply("", <<ToolCall(Head(reply.tool_calls).id, PlainRequest)>>)

Budget(reply) ==
    [log EXCEPT !.model_calls = @ + 1,
                !.steps = @ + 1,
                !.outcome = "",
                !.requests = IF reply.tool_calls # <<>> THEN @ + 1 ELSE @,
                !.deviations = IF Unusual(reply) THEN @ + 1 ELSE @]

\* (mutation of Deny: only the denial goes to the transcript, without the
\* tool-call entry)
Deny_ResultOnly(p) ==
    /\ chat_history' = Append(chat_history, ToolResultEntry(p.call_id, DenialContent))
    /\ pc' = "model"
    /\ UNCHANGED <<tools, tool_runs, exec_arguments, tool_run_id, returned>>

\* brain.py:190-214: the denied branch.  The tool call and the denial go to
\* the transcript and the model is called again.
Deny(p) ==
    /\ chat_history' = chat_history \o
           << ToolCallEntry(p.call_id, p.tool_name, p.arguments),
              ToolResultEntry(p.call_id, DenialContent) >>
    /\ pc' = "model"
    /\ UNCHANGED <<tools, tool_runs, exec_arguments, tool_run_id, returned>>

\* router.py:123-138: the registry part of execute_tool.  The descriptor is
\* auto-registered when the lookup finds none; the tool id is the one of the
\* descriptor found after that, or "tool_" + key.
RegisterIfUnknown(table, db_tool_name) ==
    IF get_tool_by_name(table, db_tool_name) = {}
    THEN InsertOrIgnoreTool(table, ToolRow(db_tool_name, TRUE, TRUE, "system", "high"))
    ELSE table

ResolvedToolId(table, db_tool_name) ==
    LET tool_info == get_tool_by_name(table, db_tool_name)
    IN  IF tool_info # {}
        THEN (CHOOSE r \in tool_info : TRUE).tool_id
        ELSE ToolId(db_tool_name)

\* (mutation of BeginFails: the failure of create_tool_run is swallowed and
\* the provider is called with no ToolRun)
BeginFails_GoesOn(p) ==
    /\ tools' = RegisterIfUnknown(tools, _resolve_db_tool(p.tool_name, p.arguments))
    /\ exec_arguments' = p.arguments
    /\ tool_run_id' = None
    /\ pc' = "provider"
    /\ UNCHANGED <<tool_runs, chat_history, returned>>

\* brain.py:217 and router.py:123-148 when create_tool_run raises (the
\* INSERT fails): the exception leaves execute_tool, which has no handler
\* around it, and think.  The auto-registration is already committed.
BeginFails(p) ==
    /\ tools' = RegisterIfUnknown(tools, _resolve_db_tool(p.tool_name, p.arguments))
    /\ exec_arguments' = EmptyDict
    /\ tool_run_id' = None
    /\ pc' = "idle"
    /\ returned' = Raised("sqlite3.Error")
    /\ UNCHANGED <<tool_runs, chat_history>>

\* brain.py:217 and router.py:123-150: execute_tool up to the provider call.
\* The descriptor is auto-registered when the lookup finds none, the ToolRun
\* is created in status running.
BeginExecute(p) ==
    LET db_tool_name == _resolve_db_tool(p.tool_name, p.arguments)
        table == RegisterIfUnknown(tools, db_tool_name)
        tool_id == ResolvedToolId(table, db_tool_name)
    IN  /\ tools' = table
        /\ exec_arguments' = p.arguments
        /\ tool_runs' = create_tool_run(tool_runs, conversation_id, tool_id,
                                        json_dumps(p.arguments))
        /\ tool_run_id' = Len(tool_runs')
        /\ pc' = "provider"
        /\ UNCHANGED <<chat_history, returned>>

\* A model reply that the loop acts on (brain.py:171-189): parse the first
\* tool call, check whether it needs approval; then either wait for the
\* approval callback, or deny (no callback), or start the execution, in
\* which create_tool_run succeeds (begin_ok) or raises.
ReplyToolRequest(reply, begin_ok) ==
    /\ pc = "model"
    /\ LoopCond(reply, iteration)
    /\ parse_tool_call(reply).ok
    /\ LET p == parse_tool_call(reply)
           needs == check_approval_needed(tools, p.tool_name, p.arguments)[1]
           asks == needs /\ approval_callback
           appr == IF needs /\ ~asks THEN _request_approval(approval_callback, FALSE)
                                     ELSE FALSE
       IN  /\ ~begin_ok => /\ ~asks
                           /\ GateOpen(needs, appr)
                           /\ Budget(reply).deviations < MaxDeviations
           /\ message' = reply
           /\ IF begin_ok
              THEN /\ parsed' = p
                   /\ iteration' = iteration + 1
                   /\ needs_approval' = needs
                   /\ approved' = appr
              ELSE /\ parsed' = NoParse
                   /\ iteration' = 0
                   /\ needs_approval' = FALSE
                   /\ approved' = FALSE
           /\ IF asks
              THEN /\ pc' = "approval"
                   /\ log' = [Budget(reply) EXCEPT !.asked = TRUE, !.asks = @ + 1]
                   /\ UNCHANGED <<tools, tool_runs, chat_history, exec_arguments,
                                  tool_run_id, returned>>
              ELSE /\ log' = [Budget(reply) EXCEPT
                                 !.asked = FALSE, !.acted = @ + 1,
                                 !.executes = IF GateOpen(needs, appr) /\ begin_ok
                                              THEN @ + 1 ELSE @,
                                 !.deviations = IF begin_ok THEN @ ELSE @ + 1]
                   /\ IF ~GateOpen(needs, appr) THEN Deny(p)
                      ELSE IF begin_ok THEN BeginExecute(p)
                      ELSE BeginFails(p)
    /\ UNCHANGED <<conversations, messages, approval_callback, conversation_id,
                   last_tool_run_id, last_message_id>>
    /\ UNCHANGED aside

\* The approval callback answers (brain.py:138, 189-190); after a yes the
\* execution starts, and create_tool_run succeeds (begin_ok) or raises.
ApprovalAnswer(answer, begin_ok) ==
    /\ pc = "approval"
    /\ (~answer \/ ~begin_ok) => log.deviations < MaxDeviations
    /\ LET appr == _request_approval(approval_callback, answer)
       IN  /\ ~begin_ok => GateOpen(needs_approval, appr)
           /\ IF begin_ok
              THEN /\ approved' = appr
                   /\ UNCHANGED <<iteration, parsed, needs_approval>>
              ELSE /\ approved' = FALSE
                   /\ iteration' = 0
                   /\ parsed' = NoParse
                   /\ needs_approval' = FALSE
           /\ IF ~GateOpen(needs_approval, appr) THEN Deny(parsed)
              ELSE IF begin_ok THEN BeginExecute(parsed)
              ELSE BeginFails(parsed)
           /\ log' = [log EXCEPT !.acted = @ + 1,
                                 !.steps = @ + 1,
                                 !.executes = IF GateOpen(needs_approval, appr) /\ begin_ok
                                              THEN @ + 1 ELSE @,
                                 !.deviations = IF answer /\ begin_ok THEN @ ELSE @ + 1]
    /\ UNCHANGED <<conversations, messages, approval_callback, conversation_id,
                   last_tool_run_id, last_message_id, message>>
    /\ UNCHANGED aside

\* router.py:152-184 and brain.py:222-264: the provider returns or raises an
\* Exception, the ToolRun is completed, the tool call and its result are
\* persisted and appended to the transcript, the model is called again.
ProviderOutcomes(tn) == IF tn \in ProviderTools THEN {"ok", "raise"} ELSE {"none"}

ProviderReturns(outcome) ==
    /\ pc = "provider"
    /\ outcome \in ProviderOutcomes(parsed.tool_name)
    /\ outcome = "raise" => log.deviations < MaxDeviations
    /\ LET tn == parsed.tool_name
           result == ProviderResult(tn, outcome)
           formatted_result == format_tool_result(tn, result)
           callee_arguments == ArgsAfterProvider(tn, exec_arguments)
           arguments == CallerArguments(parsed.arguments, callee_arguments)
       IN  /\ exec_arguments' = callee_arguments
           /\ tool_runs' = complete_tool_run(tool_runs, tool_run_id, RunStatus(result),
                                             result, result.error)
           /\ last_tool_run_id' = tool_run_id
           /\ messages' = add_message(
                  add_message(messages,
                      Row(conversation_id, "assistant", Content("tool", tn, ""), "json",
                          parsed.call_id, tn, json_dumps(arguments))),
                  Row(conversation_id, "tool", formatted_result, "text",
                      parsed.call_id, tn, NoInput))
           /\ chat_history' = chat_history \o
                  << ToolCallEntry(parsed.call_id, tn, arguments),
                     ToolResultEntry(parsed.call_id, formatted_result) >>
    /\ pc' = "model"
    /\ log' = [log EXCEPT !.outcome = outcome,
                          !.steps = @ + 1,
                          !.deviations = IF outcome = "raise" THEN @ + 1 ELSE @]
    /\ UNCHANGED <<tools, conversations, approval_callback, conversation_id,
                   last_message_id, iteration, message, parsed, needs_approval,
                   approved, tool_run_id, returned>>
    /\ UNCHANGED aside

\* The provider call is cut short by something that is not an Exception
\* (KeyboardInterrupt): "except Exception" does not catch it, think ends
\* abnormally and the ToolRun stays as it is.
ProviderInterrupted ==
    /\ pc = "provider"
    /\ parsed.tool_name \in ProviderTools
    /\ log.deviations < MaxDeviations
    /\ pc' = "idle"
    /\ returned' = Raised("KeyboardInterrupt")
    /\ log' = [log EXCEPT !.deviations = @ + 1, !.steps = @ + 1]
    /\ ResetLocals
    /\ UNCHANGED <<store, approval_callback, conversation_id, chat_history,
                   last_tool_run_id, last_message_id, message>>
    /\ UNCHANGED aside

\* A model reply that ends the loop (brain.py:177, 181-182, 266-279): no
\* tool call, or the iteration cap is reached, or nothing was parsed.  The
\* final text is persisted, appended to the transcript (which is trimmed)
\* and returned.
ReplyFinal(reply) ==
    /\ pc = "model"
    /\ ~LoopCond(reply, iteration) \/ ~parse_tool_call(reply).ok
    /\ LET final_text == FinalText(reply)
           hist == Append(chat_history, AssistantEntry(final_text))
       IN  /\ messages' = add_message(messages,
                  Row(conversation_id, "assistant", final_text, "text", None, "", NoInput))
           /\ last_message_id' = Len(messages')
           /\ chat_history' = Trim(hist)
           /\ returned' = [how |-> "returned", text |-> final_text, error |-> NoError]
           /\ log' = [Budget(reply) EXCEPT !.trimmed = @ \/ Len(hist) > TrimAbove]
    /\ pc' = "idle"
    /\ message' = reply
    /\ ResetLocals
    /\ UNCHANGED <<tools, conversations, tool_runs, approval_callback, conversation_id,
                   last_tool_run_id>>
    /\ UNCHANGED aside

\* (mutation of ModelFails: the error is swallowed and the call is made again)
ModelFails_Retry ==
    /\ pc = "model"
    /\ log.deviations < MaxDeviations
    /\ log' = [log EXCEPT !.deviations = @ + 1, !.outcome = "", !.failed = TRUE,
                          !.steps = @ + 1]
    /\ UNCHANGED <<store, approval_callback, conversation_id, chat_history,
                   last_tool_run_id, last_message_id, pc, locals, returned>>
    /\ UNCHANGED aside

\* The model call fails (brain.py:162, 208, 259): think raises.
ModelFails ==
    /\ pc = "model"
    /\ log.deviations < MaxDeviations
    /\ pc' = "idle"
    /\ returned' = Raised("APIError")
    /\ log' = [log EXCEPT !.deviations = @ + 1, !.outcome = "", !.failed = TRUE,
                          !.steps = @ + 1]
    /\ ResetLocals
    /\ UNCHANGED <<store, approval_callback, conversation_id, chat_history,
                   last_tool_run_id, last_message_id, message>>
    /\ UNCHANGED aside

ModelReplies ==
    \E reply \in Replies(log.model_calls + 1) :
        /\ reply.tool_calls # <<>> => log.requests < MaxRequests
        /\ Unusual(reply) => log.deviations < MaxDeviations
        /\ \/ \E begin_ok \in BOOLEAN : ReplyToolRequest(reply, begin_ok)
           \/ ReplyFinal(reply)

Next ==
    \/ EndCurrentConversation
    \/ \E u \in UserInputs : Think(u)
    \/ ModelReplies
    \/ ModelFails
    \/ \E answer \in BOOLEAN, begin_ok \in BOOLEAN : ApprovalAnswer(answer, begin_ok)
    \/ \E outcome \in {"ok", "raise", "none"} : ProviderReturns(outcome)
    \/ ProviderInterrupted

Spec == Init /\ [][Next]_vars

\* ------------------------------------------------------------------------
\* A conversation that already holds earlier turns
\* ------------------------------------------------------------------------
\* The entries one turn adds to the transcript when every iteration of the
\* loop executed a call: the user message, max_iterations tool calls with
\* their results, the final answer.
PastTurnLen == 2 * max_iterations + 2

\* The largest number of such turns whose entries stay within TrimAbove, so
\* that the transcript was never trimmed.
PastTurns == TrimAbove \div PastTurnLen

\* Entry number i of the transcript after PastTurns such turns, each one the
\* plain request for the shell, executed with success, answered "answer".
\* The call id is the number of the model reply that carried the request.
PastPos(i) == ((i - 1) % PastTurnLen) + 1

PastCallId(i) == ((i - 1) \div PastTurnLen) * (max_iterations + 1) + (PastPos(i) \div 2)

PastResult == ProviderResult("shell", "ok")

PastEntry(i) ==
    IF PastPos(i) = 1 THEN UserEntry("hello")
    ELSE IF PastPos(i) = PastTurnLen THEN AssistantEntry(Text("answer"))
    ELSE IF PastPos(i) % 2 = 0 THEN ToolCallEntry(PastCallId(i), "shell", ShellArgs)
    ELSE ToolResultEntry(PastCallId(i), format_tool_result("shell", PastResult))

\* The row of the messages table that was persisted with entry number i
PastRow(conv, i) ==
    IF PastPos(i) = 1
    THEN Row(conv, "user", Text("hello"), "text", None, "", NoInput)
    ELSE IF PastPos(i) = PastTurnLen
    THEN Row(conv, "assistant", Text("answer"), "text", None, "", NoInput)
    ELSE IF PastPos(i) % 2 = 0
    THEN Row(conv, "assistant", Content("tool", "shell", ""), "json",
             PastCallId(i), "shell", json_dumps(ShellArgs))
    ELSE Row(conv, "tool", format_tool_result("shell", PastResult), "text",
             PastCallId(i), "shell", NoInput)

\* The ToolRun of an executed call of the past: created, then completed
PastRun(conv) ==
    LET runs == create_tool_run(<<>>, conv, ToolId("shell"), json_dumps(ShellArgs))
    IN  complete_tool_run(runs, 1, RunStatus(PastResult), PastResult, PastResult.error)[1]

\* The state after PastTurns turns of one conversation.  The registry holds
\* an enabled descriptor for "shell", and the calls of the past went through
\* the gate: the descriptor asks for confirmation when there is a callback
\* (which said yes) and does not when there is none.  The counters of the
\* history start at zero, but for the number of model replies, from which
\* the call ids are drawn.
InitLong ==
    /\ approval_callback \in BOOLEAN
    /\ tools \in {t \in InitTools :
                    ToolRow("shell", approval_callback, TRUE, "seed", "medium") \in t}
    /\ conversations = create_conversation(<<>>)
    /\ conversation_id = 1
    /\ chat_history = [i \in 1 .. (PastTurns * PastTurnLen) |-> PastEntry(i)]
    /\ messages = [i \in 1 .. (PastTurns * PastTurnLen) |-> PastRow(1, i)]
    /\ tool_runs = [i \in 1 .. (PastTurns * max_iterations) |-> PastRun(1)]
    /\ last_tool_run_id = PastTurns * max_iterations
    /\ last_message_id = PastTurns * PastTurnLen
    /\ pc = "idle"
    /\ iteration = 0
    /\ message = Reply("answer", <<>>)
    /\ parsed = NoParse
    /\ needs_approval = FALSE
    /\ approved = FALSE
    /\ exec_arguments = EmptyDict
    /\ tool_run_id = None
    /\ returned = [how |-> "returned", text |-> Text("answer"), error |-> NoError]
    /\ log = [NewLog EXCEPT !.model_calls = PastTurns * (max_iterations + 1)]
    /\ AsideInit

SpecLong == InitLong /\ [][Next]_vars

\* ------------------------------------------------------------------------
\* The CLI main loop (main.py:288-335)
\* ------------------------------------------------------------------------
\* main builds the Brain with the approval prompt as its callback and starts
\* the conversation of the session before the loop (main.py:296-298).
InitCLI ==
    /\ tools \in InitTools
    /\ conversations = create_conversation(<<>>)
    /\ messages = <<>>
    /\ tool_runs = <<>>
    /\ approval_callback = TRUE
    /\ conversation_id = 1
    /\ chat_history = <<>>
    /\ last_tool_run_id = None
    /\ last_message_id = None
    /\ pc = "idle"
    /\ iteration = 0
    /\ message = NoMessage
    /\ parsed = NoParse
    /\ needs_approval = FALSE
    /\ approved = FALSE
    /\ exec_arguments = EmptyDict
    /\ tool_run_id = None
    /\ returned = NoReturn
    /\ log = NewLog
    /\ AsideInit

\* The loop waits at input(): think is not running and no KeyboardInterrupt
\* raised by think is on its way to the handler of the loop.  An Exception
\* raised by think is printed and the loop goes on (main.py:332-335).
AtPrompt == pc = "idle" /\ returned.error # "KeyboardInterrupt"

\* Brain.end_current_conversation followed by the break out of the loop
EndAndLeave ==
    /\ conversations' = IF conversation_id # None
                         THEN end_conversation(conversations, conversation_id)
                         ELSE conversations
    /\ conversation_id' = None
    /\ chat_history' = <<>>
    /\ pc' = "exited"
    /\ UNCHANGED <<tools, messages, tool_runs, approval_callback, last_tool_run_id,
                   last_message_id, locals, returned, log>>
    /\ UNCHANGED aside

\* main.py:319-322 and handle_slash, main.py:73-76: /quit or /exit
Quit == AtPrompt /\ EndAndLeave

\* main.py:326-329: a KeyboardInterrupt raised at input() or by think
MainKeyboardInterrupt == pc = "idle" /\ EndAndLeave

\* main.py:330-331: EOFError, raised by input() of the loop or by input() of
\* the approval prompt (main.py:60), which think lets through
EndOfInput ==
    /\ AtPrompt \/ pc = "approval"
    /\ pc' = "exited"
    /\ UNCHANGED <<store, approval_callback, conversation_id, chat_history,
                   last_tool_run_id, last_message_id, locals, returned, log>>
    /\ UNCHANGED aside

\* handle_slash, main.py:81-83: /clear is Brain.reset_conversation, which
\* ends the conversation and starts a new one (brain.py:113-116)
Clear ==
    /\ AtPrompt
    /\ log.deviations < MaxDeviations
    /\ LET ended == IF conversation_id # None
                    THEN end_conversation(conversations, conversation_id)
                    ELSE conversations
       IN  /\ conversations' = create_conversation(ended)
           /\ conversation_id' = Len(conversations')
    /\ chat_history' = <<>>
    /\ last_tool_run_id' = None
    /\ last_message_id' = None
    /\ log' = [log EXCEPT !.trimmed = FALSE, !.deviations = @ + 1]
    /\ UNCHANGED <<tools, messages, tool_runs, approval_callback, pc, locals, returned>>
    /\ UNCHANGED aside

NextCLI ==
    \/ \E u \in UserInputs : AtPrompt /\ Think(u)
    \/ ModelReplies
    \/ ModelFails
    \/ \E answer \in BOOLEAN, begin_ok \in BOOLEAN : ApprovalAnswer(answer, begin_ok)
    \/ \E outcome \in {"ok", "raise", "none"} : ProviderReturns(outcome)
    \/ ProviderInterrupted
    \/ Clear
    \/ Quit
    \/ MainKeyboardInterrupt
    \/ EndOfInput

SpecCLI == InitCLI /\ [][NextCLI]_vars

\* ------------------------------------------------------------------------
\* Memories, preferences and context assembly (memory.py, brain.py)
\* ------------------------------------------------------------------------
\* A row of memory_items, for the one user of the store.  expires_at is
\* NULL (Absent), or a time that has passed or lies ahead at every read of
\* the behaviour; updated_at is the time of the last write to the row.
MemoryRow(id, a, now) ==
    [memory_id |-> id, memory_type |-> a.memory_type, title |-> a.title,
     body |-> a.body, importance |-> a.importance,
     pin_status |-> IF a.pin THEN 1 ELSE 0,
     expires_at |-> a.expires_at, updated_at |-> now]

\* (mutation of store_memory_rows: the importance given is not stored, the
\* column keeps its default)
store_memory_rows_DefaultImportance(table, id, a, now) ==
    Append(table, [MemoryRow(id, a, now) EXCEPT !.importance = 3])

\* store_memory: INSERT INTO memory_items
store_memory_rows(table, id, a, now) == Append(table, MemoryRow(id, a, now))

\* get_memory: SELECT * FROM memory_items WHERE memory_id = ? (fetchone); the
\* set of the rows found, empty for None
get_memory(table, id) ==
    {table[i] : i \in {j \in DOMAIN table : table[j].memory_id = id}}

\* update_memory(memory_id, importance = v) and pin_memory, which is
\* update_memory(memory_id, pin_status = 1): the row, when there is one,
\* gets the value and a new updated_at
update_memory(table, id, column, v, now) ==
    [i \in DOMAIN table |->
        IF table[i].memory_id = id
        THEN [table[i] EXCEPT ![column] = v, !.updated_at = now]
        ELSE table[i]]

\* delete_memory: DELETE FROM memory_items WHERE memory_id = ?
RECURSIVE delete_memory(_, _)
delete_memory(table, id) ==
    IF table = <<>> THEN <<>>
    ELSE IF Head(table).memory_id = id THEN delete_memory(Tail(table), id)
    ELSE <<Head(table)>> \o delete_memory(Tail(table), id)

\* The row that ORDER BY importance DESC, updated_at DESC puts first
FirstByImportance(rows) ==
    CHOOSE r \in rows : \A q \in rows :
        \/ r.importance > q.importance
        \/ r.importance = q.importance /\ r.updated_at >= q.updated_at

RECURSIVE TakeOrdered(_, _)
TakeOrdered(rows, limit) ==
    IF rows = {} \/ limit = 0 THEN <<>>
    ELSE LET r == FirstByImportance(rows)
         IN  <<r>> \o TakeOrdered(rows \ {r}, limit - 1)

\* (mutation of search_memories: no LIMIT)
search_memories_NoLimit(table, min_importance, limit) ==
    LET live == {table[i] : i \in {j \in DOMAIN table :
                     \/ table[j].expires_at \in {Absent, "ahead"}
                     \/ table[j].pin_status = 1}}
        found == {r \in live : min_importance # 0 => r.importance >= min_importance}
    IN  TakeOrdered(found, Cardinality(found))

\* search_memories(min_importance, limit), with no query, type or tags: the
\* rows that are not expired or are pinned, of at least that importance (when
\* one is given), the most important and then the most recent first, at
\* most limit of them
search_memories(table, min_importance, limit) ==
    LET live == {table[i] : i \in {j \in DOMAIN table :
                     \/ table[j].expires_at \in {Absent, "ahead"}
                     \/ table[j].pin_status = 1}}
        found == {r \in live : min_importance # 0 => r.importance >= min_importance}
    IN  TakeOrdered(found, limit)

\* (mutation of set_preference_rows: plain INSERT)
set_preference_rows_Insert(table, key, value, now) ==
    table \cup {[pref_key |-> key, pref_value |-> value, updated_at |-> now]}

\* set_preference: INSERT OR REPLACE INTO user_preferences; the row of the
\* same user and key, if any, is replaced
set_preference_rows(table, key, value, now) ==
    {r \in table : r.pref_key # key}
        \cup {[pref_key |-> key, pref_value |-> value, updated_at |-> now]}

\* get_preference: the pref_value of the row found (fetchone), or the default
get_preference(table, key, default) ==
    LET found == {r \in table : r.pref_key = key}
    IN  IF found = {} THEN default ELSE (CHOOSE r \in found : TRUE).pref_value

\* build_context: the sections of the context text.  A section without rows
\* is left out; with no section at all the text is "No memory context yet.".
\* The skills table is not modelled: get_skills finds no row.
KeyMemoryLine(m) ==
    [pin |-> m.pin_status # 0, memory_type |-> m.memory_type,
     text |-> IF m.title # Absent THEN m.title ELSE m.body]

RecentRuns(runs, table) ==
    LET joined == SelectSeq([i \in DOMAIN runs |-> runs[Len(runs) + 1 - i]],
                            LAMBDA r : \E t \in table : t.tool_id = r.tool_id)
    IN  SubSeq(joined, 1, IF Len(joined) < 5 THEN Len(joined) ELSE 5)

build_context(prefs, mems, runs, table) ==
    LET memories == search_memories(mems, KeyMinImportance, KeyLimit)
        recent_runs == RecentRuns(runs, table)
    IN  [preferences |-> {<<r.pref_key, r.pref_value>> : r \in prefs},
         key_memories |-> [i \in DOMAIN memories |-> KeyMemoryLine(memories[i])],
         recent_tool_activity |->
             [i \in DOMAIN recent_runs |->
                 <<recent_runs[i].status = "success", recent_runs[i].tool_id>>],
         empty |-> prefs = {} /\ memories = <<>> /\ recent_runs = <<>>]

\* The similarity-search collaborator (memory/vectors.py) as _get_semantic_context
\* meets it: the step at which it raises an Exception, if any (the import,
\* the construction, the availability check, the search, the reading of a
\* result), whether it reports itself available, and the results of a search.
\* Scores are in hundredths.
SearchResult(score, text) == [score |-> score, text |-> text]

VectorStore(fails_at, available, results) ==
    [fails_at |-> fails_at, available |-> available, results |-> results]

VectorStores ==
    {VectorStore(f, TRUE, <<SearchResult(90, "dark mode")>>) :
         f \in {"import", "construct", "available", "search", "read"}}
    \cup {VectorStore("none", FALSE, <<SearchResult(90, "dark mode")>>)}
    \cup {VectorStore("none", TRUE, r) :
             r \in {<<>>, <<SearchResult(70, "dark mode")>>,
                    <<SearchResult(90, "dark mode"), SearchResult(50, "ls")>>}}

Returns(value) == [raised |-> FALSE, value |-> value]

Raises == [raised |-> TRUE, value |-> <<>>]

RelevantLines(results) ==
    LET high == SelectSeq(results, LAMBDA r : r.score > 70)
    IN  [i \in DOMAIN high |-> <<high[i].score, high[i].text>>]

\* (mutation of _get_semantic_context: no handler around the collaborator)
_get_semantic_context_NoHandler(vs, history) ==
    IF vs.fails_at \in {"import", "construct", "available"} THEN Raises
    ELSE IF ~vs.available THEN Returns(<<>>)
    ELSE IF SelectSeq(history, LAMBDA m : m.role = "user") = <<>> THEN Returns(<<>>)
    ELSE IF vs.fails_at = "search" THEN Raises
    ELSE IF vs.results = <<>> THEN Returns(<<>>)
    ELSE IF vs.fails_at = "read" THEN Raises
    ELSE Returns(RelevantLines(vs.results))

\* Brain._get_semantic_context: the lines of the results scored above 0.7,
\* none ("") when the collaborator is unavailable, when the transcript holds
\* no user message, when nothing is found, and when any step raises an
\* Exception (brain.py:72, 95-96)
_get_semantic_context(vs, history) ==
    IF vs.fails_at \in {"import", "construct", "available"} THEN Returns(<<>>)
    ELSE IF ~vs.available THEN Returns(<<>>)
    ELSE IF SelectSeq(history, LAMBDA m : m.role = "user") = <<>> THEN Returns(<<>>)
    ELSE IF vs.fails_at = "search" THEN Returns(<<>>)
    ELSE IF vs.results = <<>> THEN Returns(<<>>)
    ELSE IF vs.fails_at = "read" THEN Returns(<<>>)
    ELSE Returns(RelevantLines(vs.results))

\* Brain._build_system_prompt: the parts joined into the prompt
BasePrompt == "You are Jarvis, a helpful assistant."

Section(heading, body) == [heading |-> heading, body |-> body]

_build_system_prompt(memory_context, semantic_context) ==
    IF semantic_context.raised THEN Raises
    ELSE Returns(<<Section("", BasePrompt), Section("Memory Context", memory_context)>>
                 \o (IF semantic_context.value # <<>>
                     THEN <<Section("Relevant Knowledge", semantic_context.value)>>
                     ELSE <<>>))

\* Calls of the store and of the context assembly, in any order
Call(fn, args, result) == [fn |-> fn, args |-> args, result |-> result]

StoreArgs(body, importance, pin, expires_at) ==
    [memory_type |-> "note", title |-> Absent, body |-> body,
     importance |-> importance, pin |-> pin, expires_at |-> expires_at]

StoreInputs ==
    {StoreArgs("prefers dark mode", 5, FALSE, Absent),
     StoreArgs("note", 5, FALSE, Absent),
     StoreArgs("note", 3, TRUE, "passed")}

PrefInputs == {<<"theme", "dark">>, <<"theme", "light">>, <<"editor", "vim">>}

\* The memories that updates and deletions are aimed at: the one stored
\* first and the one that was stored when the table held KeyLimit - 1 rows
TargetIds == {1, KeyLimit}

MemoryIds == {memory_items[i].memory_id : i \in DOMAIN memory_items}

Untouched ==
    UNCHANGED <<store, approvals, approval_callback, conversation_id, chat_history,
                last_tool_run_id, last_message_id, pc, locals, returned, callers, feedback>>

StoreMemory(a) ==
    /\ log.writes < MaxWrites
    /\ LET mem_id == log.clock + 1
       IN  /\ memory_items' = store_memory_rows(memory_items, mem_id, a, log.clock + 1)
           /\ call' = Call("store_memory", a, mem_id)
    /\ log' = [log EXCEPT !.writes = @ + 1, !.clock = @ + 1]
    /\ UNCHANGED user_preferences
    /\ Untouched

UpdateMemory(id, column, v) ==
    /\ log.writes < MaxWrites
    /\ memory_items' = update_memory(memory_items, id, column, v, log.clock + 1)
    /\ call' = Call(IF column = "pin_status" THEN "pin_memory" ELSE "update_memory",
                    <<id, column, v>>, id \in MemoryIds)
    /\ log' = [log EXCEPT !.writes = @ + 1,
                          !.clock = IF id \in MemoryIds THEN @ + 1 ELSE @]
    /\ UNCHANGED user_preferences
    /\ Untouched

DeleteMemory(id) ==
    /\ log.writes < MaxWrites
    /\ memory_items' = delete_memory(memory_items, id)
    /\ call' = Call("delete_memory", id, id \in MemoryIds)
    /\ log' = [log EXCEPT !.writes = @ + 1]
    /\ UNCHANGED user_preferences
    /\ Untouched

SetPreference(key, value) ==
    /\ log.writes < MaxWrites
    /\ user_preferences' = set_preference_rows(user_preferences, key, value,
                                               log.clock + 1)
    /\ call' = Call("set_preference", <<key, value>>, <<>>)
    /\ log' = [log EXCEPT !.writes = @ + 1, !.clock = @ + 1]
    /\ UNCHANGED memory_items
    /\ Untouched

\* brain.py:57-68 with the collaborator vs
BuildSystemPrompt(vs) ==
    /\ call' = Call("_build_system_prompt", vs,
                    _build_system_prompt(
                        build_context(user_preferences, memory_items, tool_runs, tools),
                        _get_semantic_context(vs, chat_history)))
    /\ UNCHANGED <<memory_items, user_preferences, log>>
    /\ Untouched

\* The store at the start: empty, or holding one key memory less than
\* build_context lists, the oldest of them being "prefers dark mode"
PastMemories ==
    [i \in 1 .. (KeyLimit - 1) |->
        MemoryRow(i, StoreArgs(IF i = 1 THEN "prefers dark mode" ELSE "note",
                               5, FALSE, Absent), i)]

InitMemory ==
    /\ tools \in {t \in InitTools : ToolRow("shell", FALSE, TRUE, "seed", "medium") \in t}
    /\ conversations = create_conversation(<<>>)
    /\ messages = <<>>
    /\ tool_runs = <<>>
    /\ approval_callback = FALSE
    /\ conversation_id = 1
    /\ chat_history = <<UserEntry("hello")>>
    /\ last_tool_run_id = None
    /\ last_message_id = None
    /\ pc = "idle"
    /\ iteration = 0
    /\ message = NoMessage
    /\ parsed = NoParse
    /\ needs_approval = FALSE
    /\ approved = FALSE
    /\ exec_arguments = EmptyDict
    /\ tool_run_id = None
    /\ returned = NoReturn
    /\ memory_items \in {<<>>, PastMemories}
    /\ log = [NewLog EXCEPT !.clock = Len(memory_items)]
    /\ user_preferences = {}
    /\ approvals = <<>>
    /\ call = NoCall
    /\ callers = <<>>
    /\ feedback = <<>>

NextMemory ==
    \/ \E a \in StoreInputs : StoreMemory(a)
    \/ \E id \in TargetIds : UpdateMemory(id, "pin_status", 1)
    \/ \E id \in TargetIds : UpdateMemory(id, "importance", 3)
    \/ \E id \in TargetIds : DeleteMemory(id)
    \/ \E p \in PrefInputs : SetPreference(p[1], p[2])
    \/ \E vs \in VectorStores : BuildSystemPrompt(vs)

SpecMemory == InitMemory /\ [][NextMemory]_vars

\* ------------------------------------------------------------------------
\* The audit operations of the store, called in any order (memory.py)
\* ------------------------------------------------------------------------
\* create_approval: INSERT INTO approvals ... decision = "pending"
create_approval(table, run_id, prompt_text) ==
    Append(table, [tool_run_id |-> run_id, prompt_text |-> prompt_text,
                   decision |-> "pending", user_response |-> Absent,
                   decided_at |-> None])

\* resolve_approval: UPDATE approvals SET decision, user_response,
\* decided_at WHERE approval_id = id
resolve_approval(table, id, decision, user_response, now) ==
    [i \in DOMAIN table |->
        IF i = id
        THEN [table[i] EXCEPT !.decision = decision,
                              !.user_response = user_response,
                              !.decided_at = now]
        ELSE table[i]]

AuditResults == {Result(TRUE, Absent), Result(FALSE, "Tool execution error")}

AuditUntouched ==
    UNCHANGED <<tools, conversations, messages, memory_items, user_preferences,
                approval_callback, conversation_id, chat_history, last_tool_run_id,
                last_message_id, pc, locals, returned, callers, feedback>>

StoreCreateToolRun ==
    /\ log.writes < MaxAudit
    /\ tool_runs' = create_tool_run(tool_runs, conversation_id, ToolId("shell"),
                                    json_dumps(ShellArgs))
    /\ call' = Call("create_tool_run", conversation_id, Len(tool_runs'))
    /\ log' = [log EXCEPT !.writes = @ + 1, !.clock = @ + 1]
    /\ UNCHANGED approvals
    /\ AuditUntouched

StoreCompleteToolRun(id, result) ==
    /\ log.writes < MaxAudit
    /\ tool_runs' = complete_tool_run(tool_runs, id, RunStatus(result), result,
                                      result.error)
    /\ call' = Call("complete_tool_run", <<id, result>>, <<>>)
    /\ log' = [log EXCEPT !.writes = @ + 1, !.clock = @ + 1]
    /\ UNCHANGED approvals
    /\ AuditUntouched

StoreCreateApproval(run_id) ==
    /\ log.writes < MaxAudit
    /\ approvals' = create_approval(approvals, run_id, "Jarvis wants to use [shell]")
    /\ call' = Call("create_approval", run_id, Len(approvals'))
    /\ log' = [log EXCEPT !.writes = @ + 1, !.clock = @ + 1]
    /\ UNCHANGED tool_runs
    /\ AuditUntouched

StoreResolveApproval(id, decision) ==
    /\ log.writes < MaxAudit
    /\ approvals' = resolve_approval(approvals, id, decision, Absent, log.clock + 1)
    /\ call' = Call("resolve_approval", <<id, decision>>, <<>>)
    /\ log' = [log EXCEPT !.writes = @ + 1, !.clock = @ + 1]
    /\ UNCHANGED tool_runs
    /\ AuditUntouched

\* A store with one open conversation and none of the audit rows yet
InitAudit ==
    /\ tools \in {t \in InitTools : ToolRow("shell", TRUE, TRUE, "seed", "medium") \in t}
    /\ conversations = create_conversation(<<>>)
    /\ messages = <<>>
    /\ tool_runs = <<>>
    /\ approval_callback = TRUE
    /\ conversation_id = 1
    /\ chat_history = <<>>
    /\ last_tool_run_id = None
    /\ last_message_id = None
    /\ pc = "idle"
    /\ iteration = 0
    /\ message = NoMessage
    /\ parsed = NoParse
    /\ needs_approval = FALSE
    /\ approved = FALSE
    /\ exec_arguments = EmptyDict
    /\ tool_run_id = None
    /\ returned = NoReturn
    /\ log = NewLog
    /\ AsideInit

NextAudit ==
    \/ StoreCreateToolRun
    \/ \E id \in DOMAIN tool_runs, result \in AuditResults :
          StoreCompleteToolRun(id, result)
    \/ \E run_id \in DOMAIN tool_runs : StoreCreateApproval(run_id)
    \/ \E id \in DOMAIN approvals, decision \in {"approved", "denied"} :
          StoreResolveApproval(id, decision)

SpecAudit == InitAudit /\ [][NextAudit]_vars

\* ------------------------------------------------------------------------
\* The registry lookup of the router, called with any request (router.py)
\* ------------------------------------------------------------------------
ToolNames == ProviderTools \cup {"teleport"}

\* The action arguments of a request: absent, one of the fixed tables, or
\* one that no table knows
ActionValues == MemoryActions \cup MacActions \cup {Absent, "wipe"}

\* router.py:100-112: check_approval_needed(llm_tool_name, arguments); the
\* governance key it resolved is kept next to its answer
CheckApprovalNeeded(llm_tool_name, arguments) ==
    /\ call' = Call("check_approval_needed", <<llm_tool_name, arguments>>,
                    << _resolve_db_tool(llm_tool_name, arguments),
                       check_approval_needed(tools, llm_tool_name, arguments)[1] >>)
    /\ UNCHANGED <<store, memory_items, user_preferences, approvals, approval_callback,
                   conversation_id, chat_history, last_tool_run_id, last_message_id,
                   pc, locals, returned, log, callers, feedback>>

InitRouter ==
    /\ tools \in InitTools
    /\ conversations = <<>>
    /\ messages = <<>>
    /\ tool_runs = <<>>
    /\ approval_callback = FALSE
    /\ conversation_id = None
    /\ chat_history = <<>>
    /\ last_tool_run_id = None
    /\ last_message_id = None
    /\ pc = "idle"
    /\ iteration = 0
    /\ message = NoMessage
    /\ parsed = NoParse
    /\ needs_approval = FALSE
    /\ approved = FALSE
    /\ exec_arguments = EmptyDict
    /\ tool_run_id = None
    /\ returned = NoReturn
    /\ log = NewLog
    /\ AsideInit

NextRouter ==
    \E llm_tool_name \in ToolNames, action \in ActionValues :
        CheckApprovalNeeded(llm_tool_name, [EmptyDict EXCEPT !.action = action])

SpecRouter == InitRouter /\ [][NextRouter]_vars

\* ------------------------------------------------------------------------
\* Two callers, one store
\* ------------------------------------------------------------------------
\* Two Brain objects, each driven by a caller of its own, work on the same
\* database.  Every store operation opens a connection, runs its statement
\* and commits (memory.py:31-41), so one store operation is one step; what a
\* caller does between two of them (the model call, the provider call) reads
\* and writes nothing of the store.  The steps of the two callers interleave
\* in any order.  Each caller makes one call of think, in which the model
\* asks for the shell tool up to MaxCallsEach times, the gate lets each
\* request pass, and the model then answers.  Identifiers are the positions
\* in the tables: uuid4 gives no identifier twice.  The registry starts with
\* no descriptor of the tool, so that the first lookups find none and the
\* later ones find the descriptor that one of the callers registered.
MaxCallsEach == 1

Callers == {1, 2}

\* What one caller holds: the conversation_id of its Brain, where its think
\* and execute_tool stand, the locals of execute_tool, and the history of
\* what it has done (calls of the provider, of create_tool_run and of
\* complete_tool_run)
NewCaller == [conversation_id |-> None, pc |-> "start", tool_info |-> {},
              tool_run_id |-> None, result |-> NoResult,
              executed |-> 0, created |-> 0, completed |-> 0]

\* self.conversation_id of the Brain of caller c
CallerConversation(c) == callers[c].conversation_id

AtStep(c, at) == callers[c].pc = at

Moved(c, rec) == callers' = [callers EXCEPT ![c] = rec]

TwoUntouched ==
    UNCHANGED <<memory_items, user_preferences, approvals, call, approval_callback,
                conversation_id, chat_history, last_tool_run_id, last_message_id,
                pc, locals, returned, log, feedback>>

\* brain.py:145-147, start_conversation: create_conversation
TwoStartConversation(c) ==
    /\ AtStep(c, "start")
    /\ conversations' = create_conversation(conversations)
    /\ Moved(c, [callers[c] EXCEPT !.conversation_id = Len(conversations'),
                                   !.pc = "user"])
    /\ UNCHANGED <<tools, messages, tool_runs>>
    /\ TwoUntouched

\* brain.py:149-152: the user message is persisted
TwoAddUserMessage(c) ==
    /\ AtStep(c, "user")
    /\ messages' = add_message(messages,
           Row(CallerConversation(c), "user", Text("hello"), "text", None, "", NoInput))
    /\ Moved(c, [callers[c] EXCEPT !.pc = "model"])
    /\ UNCHANGED <<tools, conversations, tool_runs>>
    /\ TwoUntouched

\* router.py:124-125: execute_tool looks the descriptor up, after the model
\* asked for the tool and the gate let the request pass
TwoLookupTool(c) ==
    /\ AtStep(c, "model")
    /\ callers[c].executed < MaxCallsEach
    /\ LET tool_info == get_tool_by_name(tools, _resolve_db_tool("shell", ShellArgs))
       IN  Moved(c, [callers[c] EXCEPT !.tool_info = tool_info,
                                       !.pc = IF tool_info = {} THEN "register"
                                                                ELSE "create"])
    /\ UNCHANGED store
    /\ TwoUntouched

\* router.py:126-135: no descriptor was found; INSERT OR IGNORE
TwoRegisterTool(c) ==
    /\ AtStep(c, "register")
    /\ LET db_tool_name == _resolve_db_tool("shell", ShellArgs)
       IN  tools' = InsertOrIgnoreTool(tools,
                        ToolRow(db_tool_name, TRUE, TRUE, "system", "high"))
    /\ Moved(c, [callers[c] EXCEPT !.pc = "lookup_again"])
    /\ UNCHANGED <<conversations, messages, tool_runs>>
    /\ TwoUntouched

\* router.py:136: the descriptor is looked up again
TwoLookupToolAgain(c) ==
    /\ AtStep(c, "lookup_again")
    /\ Moved(c, [callers[c] EXCEPT
                    !.tool_info = get_tool_by_name(tools,
                                      _resolve_db_tool("shell", ShellArgs)),
                    !.pc = "create"])
    /\ UNCHANGED store
    /\ TwoUntouched

\* router.py:137-148: tool_id from the descriptor found, or "tool_" + key;
\* create_tool_run for the conversation of this Brain
TwoCreateToolRun(c) ==
    /\ AtStep(c, "create")
    /\ LET tool_info == callers[c].tool_info
           tool_id == IF tool_info # {}
                      THEN (CHOOSE r \in tool_info : TRUE).tool_id
                      ELSE ToolId(_resolve_db_tool("shell", ShellArgs))
       IN  tool_runs' = create_tool_run(tool_runs, CallerConversation(c), tool_id,
                                        json_dumps(ShellArgs))
    /\ Moved(c, [callers[c] EXCEPT !.tool_run_id = Len(tool_runs'),
                                   !.created = @ + 1,
                                   !.pc = "provider"])
    /\ UNCHANGED <<tools, conversations, messages>>
    /\ TwoUntouched

\* router.py:152-170: the provider returns or raises an Exception
TwoProviderReturns(c, outcome) ==
    /\ AtStep(c, "provider")
    /\ Moved(c, [callers[c] EXCEPT !.result = ProviderResult("shell", outcome),
                                   !.executed = @ + 1,
                                   !.pc = "complete"])
    /\ UNCHANGED store
    /\ TwoUntouched

\* router.py:175-182: complete_tool_run with the tool_run_id of this call
TwoCompleteToolRun(c) ==
    /\ AtStep(c, "complete")
    /\ LET result == callers[c].result
       IN  tool_runs' = complete_tool_run(tool_runs, callers[c].tool_run_id,
                                          RunStatus(result), result, result.error)
    /\ Moved(c, [callers[c] EXCEPT !.completed = @ + 1, !.pc = "persist_call"])
    /\ UNCHANGED <<tools, conversations, messages>>
    /\ TwoUntouched

\* brain.py:225-231: the tool call message is persisted
TwoAddToolCallMessage(c) ==
    /\ AtStep(c, "persist_call")
    /\ messages' = add_message(messages,
           Row(CallerConversation(c), "assistant", Content("tool", "shell", ""), "json",
               callers[c].executed, "shell", json_dumps(ShellArgs)))
    /\ Moved(c, [callers[c] EXCEPT !.pc = "persist_result"])
    /\ UNCHANGED <<tools, conversations, tool_runs>>
    /\ TwoUntouched

\* brain.py:242-250: the tool result message is persisted and the model is
\* called again
TwoAddToolResultMessage(c) ==
    /\ AtStep(c, "persist_result")
    /\ messages' = add_message(messages,
           Row(CallerConversation(c), "tool",
               format_tool_result("shell", callers[c].result), "text",
               callers[c].executed, "shell", NoInput))
    /\ Moved(c, [callers[c] EXCEPT !.pc = "model"])
    /\ UNCHANGED <<tools, conversations, tool_runs>>
    /\ TwoUntouched

\* brain.py:266-271: the model answers; the answer is persisted and think
\* returns
TwoAddFinalMessage(c) ==
    /\ AtStep(c, "model")
    /\ messages' = add_message(messages,
           Row(CallerConversation(c), "assistant", Text("answer"), "text",
               None, "", NoInput))
    /\ Moved(c, [callers[c] EXCEPT !.pc = "returned"])
    /\ UNCHANGED <<tools, conversations, tool_runs>>
    /\ TwoUntouched

InitTwo ==
    /\ tools \in {t \in InitTools : \A r \in t : r.tool_name # "shell"}
    /\ conversations = <<>>
    /\ messages = <<>>
    /\ tool_runs = <<>>
    /\ approval_callback = TRUE
    /\ conversation_id = None
    /\ chat_history = <<>>
    /\ last_tool_run_id = None
    /\ last_message_id = None
    /\ pc = "idle"
    /\ iteration = 0
    /\ message = NoMessage
    /\ parsed = NoParse
    /\ needs_approval = FALSE
    /\ approved = FALSE
    /\ exec_arguments = EmptyDict
    /\ tool_run_id = None
    /\ returned = NoReturn
    /\ log = NewLog
    /\ memory_items = <<>>
    /\ user_preferences = {}
    /\ approvals = <<>>
    /\ call = NoCall
    /\ callers = [c \in Callers |-> NewCaller]
    /\ feedback = <<>>

NextTwo ==
    \E c \in Callers :
        \/ TwoStartConversation(c)
        \/ TwoAddUserMessage(c)
        \/ TwoLookupTool(c)
        \/ TwoRegisterTool(c)
        \/ TwoLookupToolAgain(c)
        \/ TwoCreateToolRun(c)
        \/ \E outcome \in ProviderOutcomes("shell") : TwoProviderReturns(c, outcome)
        \/ TwoCompleteToolRun(c)
        \/ TwoAddToolCallMessage(c)
        \/ TwoAddToolResultMessage(c)
        \/ TwoAddFinalMessage(c)

SpecTwo == InitTwo /\ [][NextTwo]_vars

\* ------------------------------------------------------------------------
\* execute_tool: the output kept on the ToolRun
\* ------------------------------------------------------------------------
\* Calls of execute_tool in one behaviour of SpecOutput
MaxExecutions == 3

\* router.py:179: json.dumps(result)[:2000]
OutputLimit == 2000

\* shell_tool.py:75: the output of the shell provider is cut to 8000
\* characters
MaxProviderOutput == 8000

Digit(i) == <<"0", "1", "2", "3", "4", "5", "6", "7", "8", "9">>[(i % 10) + 1]

\* A provider output of n characters
ProviderText(n) == [i \in 1 .. n |-> Digit(i)]

\* json.dumps of the result dict of a provider, character by character: the
\* braces, the success key with its value, the key of the text, the text
SerializedHead(success) ==
    <<"{", "s", ":", IF success THEN "t" ELSE "f", ",", "o", ":">>

dumps_result(success, text) == SerializedHead(success) \o text \o <<"}">>

\* (mutation of Slice: the text is kept whole)
Slice_Whole(text, n) == text

\* text[:n]
Slice(text, n) == IF Len(text) <= n THEN text ELSE SubSeq(text, 1, n)

\* The sizes of the provider outputs: the serialized result is short, one
\* character below the limit, at the limit, one above it, and as long as the
\* shell provider makes it
Envelope == Len(dumps_result(TRUE, <<>>))

OutputSizes == {0, OutputLimit - Envelope - 1, OutputLimit - Envelope,
                OutputLimit - Envelope + 1, MaxProviderOutput}

OutputUntouched ==
    UNCHANGED <<tools, conversations, messages, memory_items, user_preferences,
                approvals, approval_callback, conversation_id, chat_history,
                last_tool_run_id, last_message_id, pc, locals, returned, callers, feedback>>

\* router.py:140-184: one call of execute_tool for the shell tool in the
\* conversation: the ToolRun is created, the provider returns a result with
\* an output of n characters, the ToolRun is completed with the serialized
\* result cut to OutputLimit characters
ExecuteTool(success, n) ==
    /\ log.writes < MaxExecutions
    /\ LET result == Result(success, IF success THEN Absent ELSE "command failed")
           serialized == dumps_result(success, ProviderText(n))
           created == create_tool_run(tool_runs, conversation_id, ToolId("shell"),
                                      json_dumps(ShellArgs))
       IN  /\ tool_runs' = complete_tool_run(created, Len(created), RunStatus(result),
                                             Slice(serialized, OutputLimit), result.error)
           /\ call' = Call("execute_tool", <<success, n>>, serialized)
    /\ log' = [log EXCEPT !.writes = @ + 1]
    /\ OutputUntouched

InitOutput ==
    /\ tools \in {t \in InitTools : ToolRow("shell", FALSE, TRUE, "seed", "medium") \in t}
    /\ conversations = create_conversation(<<>>)
    /\ messages = <<>>
    /\ tool_runs = <<>>
    /\ approval_callback = FALSE
    /\ conversation_id = 1
    /\ chat_history = <<>>
    /\ last_tool_run_id = None
    /\ last_message_id = None
    /\ pc = "idle"
    /\ iteration = 0
    /\ message = NoMessage
    /\ parsed = NoParse
    /\ needs_approval = FALSE
    /\ approved = FALSE
    /\ exec_arguments = EmptyDict
    /\ tool_run_id = None
    /\ returned = NoReturn
    /\ log = NewLog
    /\ AsideInit

NextOutput ==
    \E success \in BOOLEAN, n \in OutputSizes : ExecuteTool(success, n)

SpecOutput == InitOutput /\ [][NextOutput]_vars

\* ------------------------------------------------------------------------
\* Feedback (brain.py, feedback.py, main.py, memory.py)
\* ------------------------------------------------------------------------
\* Feedback records in one behaviour
MaxRatings == 2

\* The feedback table takes a rating from 1 to 5 and refuses any other: the
\* constraint of the table, whose declaration is not part of the sources
FeedbackAccepts(rating) == rating \in 1 .. 5

FeedbackRow(conv, rating, message_id, run_id) ==
    [conversation_id |-> conv, rating |-> rating, message_id |-> message_id,
     tool_run_id |-> run_id]

\* (mutation of add_feedback: the table takes any rating)
add_feedback_AnyRating(table, row) == Append(table, row)

\* add_feedback: INSERT INTO feedback; the table is as it was when the
\* INSERT is refused (and the call raises)
add_feedback(table, row) ==
    IF FeedbackAccepts(row.rating) THEN Append(table, row) ELSE table

\* What a rating call gave back: the record was made, the call answered with
\* an error, or it raised
Recorded == "recorded"

Refused == "refused"

\* Trainer.rate: the rating is checked before add_feedback
Trainer_rate(table, conv, rating, message_id, run_id) ==
    IF rating < 1 \/ rating > 5
    THEN [table |-> table, result |-> Refused]
    ELSE LET row == FeedbackRow(conv, rating, message_id, run_id)
         IN  [table |-> add_feedback(table, row),
              result |-> IF FeedbackAccepts(rating) THEN Recorded ELSE "raised"]

\* Brain.rate_last: no record without a conversation; the rating goes to
\* add_feedback as it is, with the identifiers that the Brain remembers
rate_last(table, conv, rating, message_id, run_id) ==
    IF conv = None
    THEN [table |-> table, result |-> Refused]
    ELSE LET row == FeedbackRow(conv, rating, message_id, run_id)
         IN  [table |-> add_feedback(table, row),
              result |-> IF FeedbackAccepts(rating) THEN Recorded ELSE "raised"]

\* int(text): the number that a text denotes, for the texts of RatingTexts;
\* a text that denotes none raises ValueError
IsNumber(text) == text \in {"-1", "0", "1", "3", "5", "6"}

int(text) ==
    CASE text = "-1" -> -1
      [] text = "0"  -> 0
      [] text = "1"  -> 1
      [] text = "3"  -> 3
      [] text = "5"  -> 5
      [] text = "6"  -> 6

\* main.py:85-99, the /rate command with the words that follow it: no
\* conversation, no number or a number outside 1..5 end the command with an
\* error message; otherwise Brain.rate_last
handle_slash_rate(table, conv, parts, message_id, run_id) ==
    IF conv = None THEN [table |-> table, result |-> Refused]
    ELSE IF Len(parts) > 1 /\ ~IsNumber(parts[2]) THEN [table |-> table, result |-> Refused]
    ELSE LET rating == IF Len(parts) > 1 THEN int(parts[2]) ELSE 0
         IN  IF ~(1 <= rating /\ rating <= 5)
             THEN [table |-> table, result |-> Refused]
             ELSE rate_last(table, conv, rating, message_id, run_id)

Ratings == {-1, 0, 1, 3, 5, 6}

RatingTexts == {"-1", "0", "1", "3", "5", "6", "good"}

FeedbackUntouched ==
    UNCHANGED <<store, memory_items, user_preferences, approvals, approval_callback,
                conversation_id, chat_history, last_tool_run_id, last_message_id,
                pc, locals, returned, log, callers>>

\* The outcome of a rating call is applied: the table, and the record of the
\* call with what it gave back and the size of the table before it
Rated(fn, rating, out) ==
    /\ feedback' = out.table
    /\ call' = Call(fn, <<rating>>, <<out.result, Len(feedback)>>)
    /\ FeedbackUntouched

TrainerRate(rating) ==
    /\ Len(feedback) < MaxRatings
    /\ conversation_id # None
    /\ Rated("Trainer.rate", rating,
             Trainer_rate(feedback, conversation_id, rating, None, None))

RateLast(rating) ==
    /\ Len(feedback) < MaxRatings
    /\ pc = "idle"
    /\ Rated("Brain.rate_last", rating,
             rate_last(feedback, conversation_id, rating, last_message_id,
                       last_tool_run_id))

SlashRate(parts) ==
    /\ Len(feedback) < MaxRatings
    /\ pc = "idle"
    /\ Rated("/rate", IF Len(parts) > 1 /\ IsNumber(parts[2]) THEN int(parts[2]) ELSE 0,
             handle_slash_rate(feedback, conversation_id, parts, last_message_id,
                               last_tool_run_id))

InitFeedback ==
    /\ tools \in InitTools
    /\ conversations = create_conversation(<<>>)
    /\ messages = <<>>
    /\ tool_runs = <<>>
    /\ approval_callback = FALSE
    /\ conversation_id \in {None, 1}
    /\ chat_history = <<>>
    /\ last_tool_run_id = None
    /\ last_message_id = None
    /\ pc = "idle"
    /\ iteration = 0
    /\ message = NoMessage
    /\ parsed = NoParse
    /\ needs_approval = FALSE
    /\ approved = FALSE
    /\ exec_arguments = EmptyDict
    /\ tool_run_id = None
    /\ returned = NoReturn
    /\ log = NewLog
    /\ AsideInit

NextFeedback ==
    \/ \E rating \in Ratings : TrainerRate(rating)
    \/ \E rating \in Ratings : RateLast(rating)
    \/ SlashRate(<<"/rate">>)
    \/ \E text \in RatingTexts : SlashRate(<<"/rate", text>>)

SpecFeedback == InitFeedback /\ [][NextFeedback]_vars

\* Turns of one Brain with approval callback, and ratings between them
InitRate ==
    /\ tools \in {t \in InitTools : ToolRow("shell", FALSE, TRUE, "seed", "medium") \in t}
    /\ conversations = <<>>
    /\ messages = <<>>
    /\ tool_runs = <<>>
    /\ approval_callback = TRUE
    /\ conversation_id = None
    /\ chat_history = <<>>
    /\ last_tool_run_id = None
    /\ last_message_id = None
    /\ pc = "idle"
    /\ iteration = 0
    /\ message = NoMessage
    /\ parsed = NoParse
    /\ needs_approval = FALSE
    /\ approved = FALSE
    /\ exec_arguments = EmptyDict
    /\ tool_run_id = None
    /\ returned = NoReturn
    /\ log = NewLog
    /\ AsideInit

NextRate ==
    \/ Next
    \/ RateLast(5)

SpecRate == InitRate /\ [][NextRate]_vars

\* ------------------------------------------------------------------------
\* Maintenance of the memories (memory.py)
\* ------------------------------------------------------------------------
\* Rows of memory_items at the start of a behaviour of SpecCleanup
MaxMemories == 2

\* expires_at against the time of the reads and of the cleanup: NULL, an
\* earlier time, that very time, a later time
ExpiryValues == {Absent, "passed", "now", "ahead"}

\* expires_at < now
ExpiredBefore(expires_at) == expires_at = "passed"

\* (mutation of cleanup_expired: pinned rows are deleted as well)
cleanup_expired_IgnoresPin(table) ==
    SelectSeq(table, LAMBDA r : ~(r.expires_at # Absent /\ ExpiredBefore(r.expires_at)))

\* cleanup_expired: DELETE FROM memory_items WHERE expires_at IS NOT NULL AND
\* expires_at < now AND pin_status = 0
cleanup_expired(table) ==
    SelectSeq(table, LAMBDA r : ~(/\ r.expires_at # Absent
                                  /\ ExpiredBefore(r.expires_at)
                                  /\ r.pin_status = 0))

\* The memories that store_memory can have stored, one after the other
StoredRows(n) ==
    {MemoryRow(n, StoreArgs("note", importance, pin, expires_at), n) :
        importance \in {3, 5}, pin \in BOOLEAN, expires_at \in ExpiryValues}

StoredTables ==
    UNION {{t \in [1 .. n -> UNION {StoredRows(i) : i \in 1 .. n}] :
               \A i \in 1 .. n : t[i] \in StoredRows(i)} : n \in 0 .. MaxMemories}

\* min_importance and limit of the searches: the defaults, those of
\* build_context, and a limit below the size of the table
SearchFilters == <<<<0, 20>>, <<KeyMinImportance, KeyLimit>>, <<0, 1>>>>

CleanupExpired ==
    /\ call.fn # "cleanup_expired"
    /\ memory_items' = cleanup_expired(memory_items)
    /\ call' = Call("cleanup_expired", <<memory_items>>,
                    <<Len(memory_items) - Len(memory_items')>>)
    /\ UNCHANGED <<user_preferences, log>>
    /\ Untouched

\* pin_memory(memory_id) before the cleanup
PinMemory(id) ==
    /\ call.fn = ""
    /\ id \in MemoryIds
    /\ memory_items' = update_memory(memory_items, id, "pin_status", 1,
                                     Len(memory_items) + 1)
    /\ call' = Call("pin_memory", <<id>>, <<>>)
    /\ UNCHANGED <<user_preferences, log>>
    /\ Untouched

InitCleanup ==
    /\ tools \in {t \in InitTools : ToolRow("shell", FALSE, TRUE, "seed", "medium") \in t}
    /\ conversations = <<>>
    /\ messages = <<>>
    /\ tool_runs = <<>>
    /\ approval_callback = FALSE
    /\ conversation_id = None
    /\ chat_history = <<>>
    /\ last_tool_run_id = None
    /\ last_message_id = None
    /\ pc = "idle"
    /\ iteration = 0
    /\ message = NoMessage
    /\ parsed = NoParse
    /\ needs_approval = FALSE
    /\ approved = FALSE
    /\ exec_arguments = EmptyDict
    /\ tool_run_id = None
    /\ returned = NoReturn
    /\ log = NewLog
    /\ memory_items \in StoredTables
    /\ user_preferences = {}
    /\ approvals = <<>>
    /\ call = NoCall
    /\ callers = <<>>
    /\ feedback = <<>>

NextCleanup ==
    \/ CleanupExpired
    \/ \E id \in 1 .. MaxMemories : PinMemory(id)

SpecCleanup == InitCleanup /\ [][NextCleanup]_vars

\* ------------------------------------------------------------------------
\* The shell provider (shell_tool.py)
\* ------------------------------------------------------------------------
\* Characters of a command given to the shell provider
MaxCommandLen == 3

\* A command is a sequence of characters: the letters of the binaries "l"
\* and "r", the space and the single quote
Alphabet == {"l", "r", " ", "'"}

Commands == UNION {[1 .. n -> Alphabet] : n \in 0 .. MaxCommandLen}

\* str.strip()
RECURSIVE lstrip(_)
lstrip(s) == IF s # <<>> /\ Head(s) = " " THEN lstrip(Tail(s)) ELSE s

RECURSIVE rstrip(_)
rstrip(s) ==
    IF s # <<>> /\ s[Len(s)] = " " THEN rstrip(SubSeq(s, 1, Len(s) - 1)) ELSE s

strip(s) == rstrip(lstrip(s))

\* pat in cmd
IsSubstring(pat, cmd) ==
    \E i \in 1 .. (Len(cmd) - Len(pat) + 1) : SubSeq(cmd, i, i + Len(pat) - 1) = pat

\* shlex.split(cmd), as far as its first token: the characters are read from
\* the left; a quote opens or closes a quoted part and is dropped; a space
\* outside quotes ends the token; the end of the text inside quotes is an
\* error ("No closing quotation")
RECURSIVE shlex_first(_, _, _)
shlex_first(rest, quoted, token) ==
    IF rest = <<>>
    THEN [ok |-> ~quoted, first |-> token]
    ELSE IF Head(rest) = "'"
    THEN shlex_first(Tail(rest), ~quoted, token)
    ELSE IF Head(rest) = " " /\ ~quoted
    THEN LET after == shlex_first(Tail(rest), FALSE, <<>>)
         IN  [ok |-> after.ok, first |-> token]
    ELSE shlex_first(Tail(rest), quoted, Append(token, Head(rest)))

\* The shell section of the policy file, as _load_shell_policy returns it;
\* the empty dict when the file cannot be read
ShellPolicy(enabled, blocked_patterns, allowed_commands) ==
    [enabled |-> enabled, blocked_patterns |-> blocked_patterns,
     allowed_commands |-> allowed_commands]

EmptyPolicy == ShellPolicy(Absent, {}, {})

\* (mutation of _load_shell_policy: a file that cannot be read gives a
\* policy that allows the binary "l")
_load_shell_policy_Permissive(loaded, cfg) ==
    IF loaded THEN cfg ELSE ShellPolicy(Absent, {}, {<<"l">>})

_load_shell_policy(loaded, cfg) == IF loaded THEN cfg ELSE EmptyPolicy

\* (mutation of _is_allowed: the blocked patterns are not looked at)
_is_allowed_NoBlocklist(command, policy) ==
    LET cmd == strip(command)
        parts == shlex_first(cmd, FALSE, <<>>)
    IN  IF cmd = <<>> THEN <<FALSE, "command is empty">>
        ELSE IF ~parts.ok THEN <<FALSE, "failed to parse command">>
        ELSE IF parts.first \notin policy.allowed_commands
        THEN <<FALSE, "not in allowlist">>
        ELSE <<TRUE, "ok">>

\* _is_allowed: <<ok, reason>>
_is_allowed(command, policy) ==
    LET cmd == strip(command)
        parts == shlex_first(cmd, FALSE, <<>>)
    IN  IF cmd = <<>> THEN <<FALSE, "command is empty">>
        ELSE IF \E pat \in policy.blocked_patterns : pat # <<>> /\ IsSubstring(pat, cmd)
        THEN <<FALSE, "blocked pattern detected">>
        ELSE IF ~parts.ok THEN <<FALSE, "failed to parse command">>
        ELSE IF parts.first \notin policy.allowed_commands
        THEN <<FALSE, "not in allowlist">>
        ELSE <<TRUE, "ok">>

\* How a subprocess that was started ends: return code 0, another return
\* code, the timeout, or an error of the start itself
ProcessOutcomes == {"zero", "nonzero", "timeout", "oserror"}

\* run: the result, and whether subprocess.run was called
shell_run(loaded, cfg, command, outcome) ==
    LET policy == _load_shell_policy(loaded, cfg)
        allowed == _is_allowed(command, policy)
    IN  IF DictGet(policy, "enabled", "true") # "true"
        THEN [success |-> FALSE, error |-> "shell tool is disabled by policy",
              started |-> FALSE]
        ELSE IF ~allowed[1]
        THEN [success |-> FALSE, error |-> allowed[2], started |-> FALSE]
        ELSE [success |-> outcome = "zero",
              error |-> IF outcome = "zero" THEN "" ELSE outcome,
              started |-> TRUE]

\* The policy files: the tool enabled, disabled or with no word on it; the
\* pattern "r" blocked or nothing blocked; the binary "l" allowed or nothing
\* allowed
PolicyFiles ==
    {ShellPolicy(enabled, blocked, allowed) :
        enabled \in {Absent, "true", "false"},
        blocked \in {{}, {<<"r">>}},
        allowed \in {{}, {<<"l">>}, {<<"l">>, <<"l", "r">>}}}

ShellUntouched ==
    UNCHANGED <<store, memory_items, user_preferences, approvals, approval_callback,
                conversation_id, chat_history, last_tool_run_id, last_message_id,
                pc, locals, returned, log, callers, feedback>>

\* One call of run; a call depends on no call before it
ShellRun(loaded, cfg, command, outcome) ==
    /\ call.fn = ""
    /\ call' = Call("shell_tool.run", <<loaded, cfg, command>>,
                    shell_run(loaded, cfg, command, outcome))
    /\ ShellUntouched

InitShell ==
    /\ InitRouter
    /\ ToolRow("shell", FALSE, TRUE, "seed", "medium") \in tools

NextShell ==
    /\ call.fn = ""
    /\ \E loaded \in BOOLEAN, cfg \in PolicyFiles, command \in Commands,
          outcome \in ProcessOutcomes :
           ShellRun(loaded, cfg, command, outcome)

SpecShell == InitShell /\ [][NextShell]_vars

\* ------------------------------------------------------------------------
\* Properties
\* ------------------------------------------------------------------------
Last(seq) == seq[Len(seq)]

\* C1: whenever think has dispatched a tool call to execute_tool, then in
\* that iteration either check_approval_needed returned false, or the
\* approval callback was invoked and returned true.
C1_DispatchOnlyWhenCleared ==
    pc = "provider" => (~needs_approval \/ (log.asked /\ approved))

C1_Witness ==
    pc = "provider" /\ needs_approval /\ log.asked /\ approved

\* C2: in one call of think at most 5 iterations act on a tool request,
\* executions and denials counted together.
C2_AtMostFiveIterations ==
    log.acted <= max_iterations /\ iteration <= max_iterations

\* the cap is reached with denials and executions, and the reply that came
\* after the 5th iteration still asked for a tool
C2_Witness ==
    /\ returned.how = "returned"
    /\ log.acted = max_iterations
    /\ message.tool_calls # <<>>
    /\ Len(tool_runs) - log.runs0 \in 1 .. (max_iterations - 1)

\* C3: a step that denies a call (approval needed, decision false) leaves
\* the tool_runs table as it is and does not reach execute_tool: the next
\* thing is the model call.
C3_DeniedIsNotExecuted ==
    [][(log'.acted = log.acted + 1 /\ needs_approval' /\ ~approved')
          => (tool_runs' = tool_runs /\ tools' = tools /\ pc' = "model")]_vars

\* a call was denied by the callback
C3_Witness ==
    /\ pc = "model" /\ needs_approval /\ log.asked /\ ~approved
    /\ log.acted >= 1
    /\ Last(chat_history).content = DenialContent

\* C4: a request whose governance key has no descriptor, with no approval
\* callback, is treated as requiring approval and denied: a high-risk
\* descriptor with confirmation is registered, execute_tool is not reached,
\* the denial is in the transcript and no ToolRun is created.
C4_UnknownToolDenied ==
    [][(/\ iteration' = iteration + 1
        /\ ~approval_callback
        /\ ~\E r \in tools :
              r.tool_name = _resolve_db_tool(parsed'.tool_name, parsed'.arguments))
          => (/\ needs_approval'
              /\ pc' = "model"
              /\ tool_runs' = tool_runs
              /\ Last(chat_history').content = DenialContent
              /\ ToolRow(_resolve_db_tool(parsed'.tool_name, parsed'.arguments),
                         TRUE, TRUE, "system", "high") \in tools')]_vars

\* C5: without an approval callback _request_approval never answers true,
\* and no call for which check_approval_needed returned true is dispatched.
C5_DefaultDeny ==
    ~approval_callback => (~approved /\ (pc = "provider" => ~needs_approval))

\* without a callback a call that needed approval was denied, in a second turn
C5_Witness ==
    /\ ~approval_callback /\ needs_approval /\ pc = "model"
    /\ log.acted >= 1 /\ log.turns = 2
    /\ Last(chat_history).content = DenialContent

\* C6: check_approval_needed returns true iff the governance key of the
\* call has a descriptor in the tools table with the confirmation flag set.
C6_ApprovalIffConfirmFlag ==
    [][(iteration' = iteration + 1)
          => (needs_approval' <=>
                \E r \in tools :
                    /\ r.tool_name = _resolve_db_tool(parsed'.tool_name, parsed'.arguments)
                    /\ r.requires_confirm)]_vars

\* The persisted rows and the ToolRuns that the current call of think made
RunsOfThink == (log.runs0 + 1) .. Len(tool_runs)

MessagesOfThink == (log.msgs0 + 1) .. Len(messages)

ToolRowsOfThink == {i \in MessagesOfThink : messages[i].role = "tool"}

\* C7 as stated: after a normal return of think every executed call has
\* exactly one ToolRun, in status success or failed, and no ToolRun of the
\* conversation is in status running.
C7_NoRunningAfterReturn ==
    returned.how = "returned" =>
        /\ Cardinality(RunsOfThink) = Cardinality(ToolRowsOfThink)
        /\ \A i \in DOMAIN tool_runs :
              tool_runs[i].conversation_id = conversation_id
                  => tool_runs[i].status \in {"success", "failed"}

\* C7 amended: after a normal return of think every call that this think
\* executed has exactly one ToolRun, in status success or failed; no ToolRun
\* created by this call of think is in status running.
C7_RunsOfThinkFinalized ==
    returned.how = "returned" =>
        /\ Cardinality(RunsOfThink) = Cardinality(ToolRowsOfThink)
        /\ \A i \in RunsOfThink :
              /\ conversation_id # None => tool_runs[i].conversation_id = conversation_id
              /\ tool_runs[i].status \in {"success", "failed"}
              /\ tool_runs[i].finished

\* think returned after executing calls, in a conversation that holds a
\* ToolRun left running by an earlier think
C7_Witness ==
    /\ returned.how = "returned"
    /\ RunsOfThink # {}
    /\ \E i \in DOMAIN tool_runs :
          /\ tool_runs[i].conversation_id = conversation_id
          /\ tool_runs[i].status = "running"

\* C8: when the provider raised, execute_tool returned a failure result:
\* the ToolRun is finalized as failed with the error text, the formatted
\* error is the tool result at the end of the transcript and of the
\* persisted messages, and think is at the next model call.
C8_ProviderExceptionCaught ==
    log.outcome = "raise" =>
        /\ pc = "model"
        /\ tool_runs[tool_run_id].status = "failed"
        /\ tool_runs[tool_run_id].finished
        /\ tool_runs[tool_run_id].error_text = "Tool execution error"
        /\ tool_runs[tool_run_id].output_json = Result(FALSE, "Tool execution error")
        /\ Last(chat_history) =
              ToolResultEntry(parsed.call_id,
                  Content("error", parsed.tool_name, "Tool execution error"))
        /\ Last(messages).role = "tool"
        /\ Last(messages).content =
              Content("error", parsed.tool_name, "Tool execution error")

C8_Witness ==
    log.outcome = "raise" /\ pc = "model" /\ Len(tool_runs) >= 1

\* C9: a reply whose tool-call payload is not valid JSON ends the turn with
\* the text of the reply (or the placeholder): no approval is requested, no
\* tool is executed.
C9_ParseFailureEndsTurn ==
    [][(/\ log'.model_calls = log.model_calls + 1
        /\ message'.tool_calls # <<>>
        /\ ~JsonDecodes(Head(message'.tool_calls).arguments))
          => (/\ pc' = "idle"
              /\ returned'.how = "returned"
              /\ returned'.text = FinalText(message')
              /\ tool_runs' = tool_runs
              /\ ~log'.asked)]_vars

\* The persisted messages of a conversation, in creation order
RECURSIVE ConvMessages(_, _)
ConvMessages(msgs, conv) ==
    IF msgs = <<>> THEN <<>>
    ELSE IF Head(msgs).conversation_id = conv
         THEN <<Head(msgs)>> \o ConvMessages(Tail(msgs), conv)
         ELSE ConvMessages(Tail(msgs), conv)

\* A persisted row and a transcript entry that stand for the same message
Corresponds(row, entry) ==
    /\ row.role = entry.role
    /\ row.tool_call_id = entry.tool_call_id
    /\ IF entry.role = "assistant" /\ entry.tool_call_id # None
       THEN row.tool_name = entry.tool_name /\ row.tool_input = entry.tool_input
       ELSE row.content = entry.content

\* C10: at every model call of a conversation whose transcript was not
\* trimmed, the persisted messages of the conversation correspond one to one,
\* in order, to the transcript entries sent to the model.
C10_PersistedEqualsTranscript ==
    (pc = "model" /\ ~log.trimmed) =>
        LET rows == ConvMessages(messages, conversation_id)
        IN  /\ Len(rows) = Len(chat_history)
            /\ \A i \in DOMAIN rows : Corresponds(rows[i], chat_history[i])

\* C11: in the transcript passed to every model call, also after the
\* transcript was trimmed, every tool-result entry is immediately preceded
\* by the assistant tool-call entry that carries the same call id.
C11_ResultFollowsItsCall ==
    pc = "model" =>
        \A i \in DOMAIN chat_history :
            chat_history[i].role = "tool" =>
                /\ i > 1
                /\ chat_history[i - 1].role = "assistant"
                /\ chat_history[i - 1].tool_call_id = chat_history[i].tool_call_id

\* The steps that a call of think in progress can still take, at most: three
\* per iteration left (approval, provider, model reply) and the model reply
\* that is awaited.
StepsLeft ==
    IF pc = "idle" THEN 0
    ELSE 3 * (max_iterations - iteration)
           + (CASE pc = "model" -> 1 [] pc = "provider" -> 2 [] pc = "approval" -> 3)

\* what a think that returned has returned, and what it left alone when the
\* last reply still carried a tool request
C12_ReturnedText ==
    returned.how = "returned" =>
        /\ returned.text = IF message.content = "" THEN Placeholder
                                                   ELSE Text(message.content)
        /\ returned.text.text # ""
        /\ message.tool_calls # <<>> =>
              /\ log.acted = max_iterations
              /\ Cardinality(RunsOfThink) <= max_iterations
              /\ \A i \in DOMAIN chat_history :
                    chat_history[i].tool_call_id # Head(message.tool_calls).id
              /\ \A i \in DOMAIN messages :
                    messages[i].tool_call_id # Head(message.tool_calls).id

\* a think ends within 3 * max_iterations + 1 steps: the steps it has taken
\* and the steps it can still take never add up to more
C12_BoundedSteps ==
    /\ StepsLeft >= 0
    /\ log.steps + StepsLeft <= 3 * max_iterations + 1

\* C12: every call of think ends after a bounded number of model replies,
\* approval decisions and provider returns, and when it returns it returns a
\* non-empty text: the text of the last model reply, or "(No response)" when
\* that text is empty.  A tool request in the reply that follows the 5th
\* iteration is not executed, and the turn ends with such a text.
C12_ThinkTerminatesWithText ==
    C12_ReturnedText /\ C12_BoundedSteps

\* think returned the placeholder at the cap: the reply after the 5th
\* iteration carried a tool request and no text
C12_Witness ==
    /\ returned.how = "returned"
    /\ returned.text = Placeholder
    /\ message.tool_calls # <<>>
    /\ iteration = 0 /\ log.acted = max_iterations
    /\ log.steps > 2 * max_iterations

\* C13: a call of think persists exactly one user message, before the first
\* model call, and when it returns normally exactly one final assistant text
\* message, the last message of the turn; the returned text is the content
\* of that message and of the assistant entry that ends the transcript.
C13_OneUserOneFinalMessage ==
    LET users  == {i \in MessagesOfThink : messages[i].role = "user"}
        finals == {i \in MessagesOfThink : messages[i].role = "assistant"
                                           /\ messages[i].content_type = "text"}
    IN  /\ pc # "idle" => (users = {log.msgs0 + 1} /\ finals = {})
        /\ returned.how = "returned" =>
              /\ users = {log.msgs0 + 1}
              /\ finals = {Len(messages)}
              /\ Len(messages) > log.msgs0 + 1
              /\ Last(messages).content = returned.text
              /\ Last(messages).tool_call_id = None
              /\ last_message_id = Len(messages)
              /\ conversation_id # None =>
                    Last(chat_history) = AssistantEntry(returned.text)

\* the second think of a conversation returned "answer" after executing a call
C13_Witness ==
    /\ returned.how = "returned"
    /\ returned.text = Text("answer")
    /\ log.turns = 2 /\ conversation_id # None
    /\ Cardinality(MessagesOfThink) >= 4
    /\ Cardinality(MessagesOfThink) < Len(messages)

\* C14: when a tool call has been denied, think is at the next model call
\* and the transcript ends with the assistant tool-call entry followed by
\* the tool-result entry of the same call id that states the denial; the
\* denied attempt has used one of the 5 iterations.
C14_DenialThenModelCall ==
    (pc # "idle" /\ pc # "approval" /\ needs_approval /\ ~approved) =>
        /\ pc = "model"
        /\ Len(chat_history) >= 2
        /\ chat_history[Len(chat_history) - 1] =
              ToolCallEntry(parsed.call_id, parsed.tool_name, parsed.arguments)
        /\ Last(chat_history) = ToolResultEntry(parsed.call_id, DenialContent)
        /\ iteration \in 1 .. max_iterations
        /\ log.acted = iteration

\* the 5th iteration of a think was a denial, after an execution
C14_Witness ==
    /\ pc = "model" /\ needs_approval /\ ~approved
    /\ iteration = max_iterations
    /\ RunsOfThink # {}

\* The call ids of the requests that were not the first of their reply
OtherIds == {SecondId(n) : n \in 1 .. log.model_calls}

\* of a reply only the first request is acted on: it is the one parsed, an
\* iteration makes at most one ToolRun and one tool result, and the call ids
\* of the other requests are in no transcript entry and no persisted message
C15_FirstIsParsed ==
    /\ (pc # "idle" /\ iteration > 0) =>
          /\ parsed.call_id = Head(message.tool_calls).id
          /\ parsed.tool_name = Head(message.tool_calls).name
    /\ Cardinality(RunsOfThink) <= log.acted
    /\ Cardinality(ToolRowsOfThink) <= log.acted
    /\ LET others == OtherIds
       IN  /\ \A i \in DOMAIN chat_history : chat_history[i].tool_call_id \notin others
           /\ \A i \in DOMAIN messages : messages[i].tool_call_id \notin others

\* one approval request and one provider execution per iteration, at most,
\* and no ToolRun but for a provider execution
C15_OnePerIteration ==
    /\ pc # "idle" => (log.asks <= iteration /\ log.executes <= iteration)
    /\ log.asks <= log.acted + (IF pc = "approval" THEN 1 ELSE 0)
    /\ log.executes <= log.acted
    /\ Cardinality(RunsOfThink) = log.executes

\* C15: when a reply carries several tool requests, each iteration acts on
\* exactly one of them, the first; there is at most one approval request and
\* one provider execution per iteration, and the other requests are never
\* executed, recorded as ToolRuns or added to the transcript.
C15_OnlyFirstRequest ==
    C15_FirstIsParsed /\ C15_OnePerIteration

\* the first request of a reply with two requests was executed and the model
\* has been called again
C15_Witness ==
    /\ pc = "model"
    /\ Len(message.tool_calls) = 2
    /\ RunsOfThink # {}
    /\ Last(messages).tool_call_id = Head(message.tool_calls).id
    /\ Last(tool_runs).tool_id = ToolId("shell")

\* C16: after a call was executed, the arguments serialized into the
\* persisted tool-call message, into the transcript entry and into the
\* ToolRun are the arguments parsed from the model's request, its action
\* field included, whatever execute_tool did to the dict it was given.
C16_ArgumentsNotMutated ==
    (pc = "model" /\ log.outcome # "") =>
        /\ JsonDecodes(Head(message.tool_calls).arguments) =>
              parsed.arguments = json_loads(Head(message.tool_calls).arguments)
        /\ messages[Len(messages) - 1].tool_call_id = parsed.call_id
        /\ messages[Len(messages) - 1].tool_input = json_dumps(parsed.arguments)
        /\ chat_history[Len(chat_history) - 1].tool_call_id = parsed.call_id
        /\ chat_history[Len(chat_history) - 1].tool_input = json_dumps(parsed.arguments)
        /\ tool_runs[tool_run_id].input_json = json_dumps(parsed.arguments)

\* a memory deletion was executed: execute_tool popped the action of its
\* dict, the request had one
C16_Witness ==
    /\ pc = "model" /\ log.outcome = "ok"
    /\ parsed.tool_name = "memory"
    /\ parsed.arguments.action = "delete"
    /\ exec_arguments.action = Absent

\* no governance key has two descriptors
C17_OneDescriptorPerKey ==
    \A r \in tools : \A q \in tools : r.tool_name = q.tool_name => r = q

\* a step keeps every descriptor as it is; it adds one only on the way into
\* execute_tool (never in the gate: not when the callback is asked, not
\* when the call is denied), for a key that had none, with the defaults
C17_RegistryStep ==
    /\ tools \subseteq tools'
    /\ tools' # tools =>
          /\ pc' = "provider" \/ returned'.error = "sqlite3.Error"
          /\ \E r \in tools' :
                /\ tools' = tools \cup {r}
                /\ r = ToolRow(r.tool_name, TRUE, TRUE, "system", "high")
                /\ ~\E q \in tools : q.tool_name = r.tool_name

FinalRowsOfThink ==
    {i \in MessagesOfThink : messages[i].role = "assistant"
                             /\ messages[i].content_type = "text"}

\* C19: when a model call of think has failed, think has ended with that
\* error: no model call is retried or pending, no tool is being executed
\* or asked about, every ToolRun of the turn is one completed before the
\* failure, and no final assistant message was persisted for the turn.
C19_ModelFailureEndsTurn ==
    log.failed =>
        /\ pc = "idle"
        /\ returned = Raised("APIError")
        /\ FinalRowsOfThink = {}
        /\ Last(messages).role \in {"user", "tool"}
        /\ \A i \in RunsOfThink : tool_runs[i].finished
        /\ Cardinality(RunsOfThink) = Cardinality(ToolRowsOfThink)
        /\ conversation_id # None => Last(chat_history).role \in {"user", "tool"}

\* the model call that followed an executed tool call failed
C19_Witness ==
    /\ log.failed
    /\ RunsOfThink # {}
    /\ Last(messages).role = "tool"
    /\ returned.error = "APIError"

\* C20: when creating the ToolRun failed for a call, the provider was not
\* invoked for it and think has failed: the ToolRuns and tool results of
\* the turn are those of the calls executed before.  Whenever a provider is
\* being executed for think, the ToolRun of that call exists, created for it
\* in status running.
C20_NoExecutionWithoutToolRun ==
    /\ pc = "provider" =>
          /\ tool_run_id # None
          /\ tool_run_id = Len(tool_runs)
          /\ tool_run_id \in RunsOfThink
          /\ tool_runs[tool_run_id].status = "running"
          /\ tool_runs[tool_run_id].conversation_id = conversation_id
          /\ tool_runs[tool_run_id].input_json = json_dumps(parsed.arguments)
    /\ returned.error = "sqlite3.Error" =>
          /\ pc = "idle"
          /\ returned.how = "raised"
          /\ \A i \in RunsOfThink : tool_runs[i].finished
          /\ Cardinality(RunsOfThink) = Cardinality(ToolRowsOfThink)
          /\ Cardinality(RunsOfThink) < log.acted
          /\ FinalRowsOfThink = {}

\* creating the ToolRun failed for the second call of a turn, after the
\* callback had approved the call
C20_Witness ==
    /\ returned.error = "sqlite3.Error"
    /\ Cardinality(RunsOfThink) = 1
    /\ log.acted = 2
    /\ log.asked

\* after a think that returned the transcript holds at most TrimAbove entries
C21_TranscriptBounded ==
    returned.how = "returned" => Len(chat_history) <= TrimAbove

\* no step removes or changes a persisted message; the step by which think
\* returns leaves the transcript with the final answer appended, cut to its
\* last TrimKeep entries when that made more than TrimAbove
C21_TrimStep ==
    /\ Len(messages') >= Len(messages)
    /\ \A i \in DOMAIN messages : messages'[i] = messages[i]
    /\ (returned'.how = "returned" /\ returned.how # "returned") =>
          LET h == Append(chat_history, AssistantEntry(returned'.text))
          IN  chat_history' = IF Len(h) > TrimAbove
                              THEN [i \in 1 .. TrimKeep |-> h[Len(h) - TrimKeep + i]]
                              ELSE h

C22_ExitClosesConversation ==
    pc = "exited" => \A c \in DOMAIN conversations : conversations[c].ended

\* C23: when the similarity-search collaborator is unavailable or raises at
\* any step (import and construction, availability check, search, reading a
\* result), _get_semantic_context returns the empty text and
\* _build_system_prompt returns, without raising, the base instruction and
\* the memory context with no relevant-knowledge section.
C23_SemanticDegradesSilently ==
    (/\ call.fn = "_build_system_prompt"
     /\ call.args.fails_at # "none" \/ ~call.args.available) =>
        /\ _get_semantic_context(call.args, chat_history) = Returns(<<>>)
        /\ ~call.result.raised
        /\ call.result.value =
              << Section("", BasePrompt),
                 Section("Memory Context",
                         build_context(user_preferences, memory_items, tool_runs, tools)) >>

\* the prompt was built, with key memories and a preference in the memory
\* context, while the reading of a search result raised
C23_Witness ==
    /\ call.fn = "_build_system_prompt"
    /\ call.args.fails_at = "read"
    /\ Len(call.result.value) = 2
    /\ call.result.value[2].body.key_memories # <<>>
    /\ call.result.value[2].body.preferences # {}

\* C24: storing then reading gives back what was stored.  After
\* store_memory, get_memory of the identifier it returned finds one row with
\* the field values given; after set_preference, get_preference of the key
\* returns the value given; and however often set_preference was called for
\* a key, the table holds one row for it, with the value of the last call.
C24_RoundTrip ==
    /\ call.fn = "store_memory" =>
          /\ Cardinality(get_memory(memory_items, call.result)) = 1
          /\ \A m \in get_memory(memory_items, call.result) :
                /\ m.body = call.args.body
                /\ m.memory_type = call.args.memory_type
                /\ m.title = call.args.title
                /\ m.importance = call.args.importance
                /\ m.expires_at = call.args.expires_at
                /\ (m.pin_status = 1) = call.args.pin
                /\ (m.pin_status = 0) = ~call.args.pin
    /\ call.fn = "set_preference" =>
          get_preference(user_preferences, call.args[1], Absent) = call.args[2]
    /\ \A r \in user_preferences : \A q \in user_preferences :
          r.pref_key = q.pref_key => r = q

\* set_preference was called twice for "theme", first with "dark" or
\* "light", last with "light": the two writes of the behaviour left one
\* row, written at time 2, in a store with no memory and no other preference
C24_Witness ==
    /\ call.fn = "set_preference"
    /\ call.args = <<"theme", "light">>
    /\ memory_items = <<>>
    /\ log.writes = 2
    /\ user_preferences =
          {[pref_key |-> "theme", pref_value |-> "light", updated_at |-> 2]}

\* The rows of memory_items, those that are not expired or are pinned, and
\* the rows that build_context lists under the key memories
MemoryRows == {memory_items[i] : i \in DOMAIN memory_items}

Live(m) == m.expires_at \in {Absent, "ahead"} \/ m.pin_status = 1

KeyMemories ==
    LET listed == search_memories(memory_items, KeyMinImportance, KeyLimit)
    IN  {listed[i] : i \in DOMAIN listed}

\* C25 as stated: every memory of importance 5 that is in the table and is
\* not expired is listed under the key memories, whatever else was stored.
C25_ImportantAlwaysListed ==
    \A m \in MemoryRows :
        (m.importance = 5 /\ m.expires_at \in {Absent, "ahead"}) => m \in KeyMemories

\* C25 amended: a memory is listed under the key memories exactly when it is
\* not expired or is pinned, has importance 4 or more, and fewer than 10 such
\* memories come before it in the order of importance and then of recency;
\* a memory stored with importance 5 is listed until 10 memories of
\* importance 5 were written after it.
C25_ListedWhileAmongFirstTen ==
    /\ \A m \in MemoryRows :
          m \in KeyMemories <=>
              /\ Live(m)
              /\ m.importance >= KeyMinImportance
              /\ Cardinality({q \in MemoryRows :
                     /\ Live(q)
                     /\ q.importance >= KeyMinImportance
                     /\ \/ q.importance > m.importance
                        \/ q.importance = m.importance /\ q.updated_at > m.updated_at})
                   < KeyLimit
    /\ call.fn = "_build_system_prompt" =>
          LET lines == call.result.value[2].body.key_memories
              listed == search_memories(memory_items, KeyMinImportance, KeyLimit)
          IN  /\ Len(lines) = Len(listed)
              /\ \A i \in DOMAIN lines : lines[i] = KeyMemoryLine(listed[i])

\* the prompt was built for a store in which another memory of importance 5
\* was stored after "prefers dark mode" and eight others: the ten are listed,
\* "prefers dark mode" last
C25_Witness ==
    /\ call.fn = "_build_system_prompt"
    /\ Len(memory_items) = KeyLimit
    /\ Len(call.result.value[2].body.key_memories) = KeyLimit
    /\ call.result.value[2].body.key_memories[KeyLimit].text = "prefers dark mode"
    /\ memory_items[1].importance = 5

\* The ToolRuns of the current conversation that are in status running
RunningOfConversation ==
    {i \in DOMAIN tool_runs : /\ tool_runs[i].conversation_id = conversation_id
                              /\ tool_runs[i].status = "running"}

\* C26 as stated: at most one ToolRun of a conversation is in status running
\* at any time, and none is running while the model is called or an
\* approval is requested.
C26_NoneRunningAtModelCall ==
    /\ Cardinality(RunningOfConversation) <= 1
    /\ pc \in {"model", "approval"} => RunningOfConversation = {}

\* C26 amended: the ToolRuns made by the current call of think are made and
\* finalized in order.  While a provider is executed the newest ToolRun is
\* the one of the call, in status running, and it is the only one of this
\* think that is not finalized; while the model is called or an approval is
\* requested every ToolRun of this think is finalized, and there is one
\* tool result for each.  (A ToolRun left running by an earlier think that
\* was interrupted inside its provider stays running.)
C26_RunsOfThinkInOrder ==
    LET open == {i \in RunsOfThink : ~tool_runs[i].finished}
    IN  /\ \A i \in RunsOfThink :
              tool_runs[i].finished <=> tool_runs[i].status \in {"success", "failed"}
        /\ pc = "provider" =>
              /\ open = {Len(tool_runs)}
              /\ tool_run_id = Len(tool_runs)
              /\ tool_runs[tool_run_id].status = "running"
              /\ Cardinality(RunsOfThink) = Cardinality(ToolRowsOfThink) + 1
              /\ Cardinality(RunsOfThink) = log.executes
        /\ pc \in {"model", "approval"} =>
              /\ open = {}
              /\ Cardinality(RunsOfThink) = Cardinality(ToolRowsOfThink)
              /\ Cardinality(RunsOfThink) = log.executes

\* the provider of the third call of a think is being executed, in a
\* conversation that holds a ToolRun left running by an earlier think
C26_Witness ==
    /\ pc = "provider"
    /\ Cardinality(RunsOfThink) = 3
    /\ Cardinality(RunningOfConversation) = 2

\* C27: a ToolRun is finalized once and never revisited.  No step changes a
\* row of tool_runs whose status is success or failed: complete_tool_run
\* changes a row only while its status is running.
C27_FinalizedNeverChanges ==
    [][\A i \in DOMAIN tool_runs :
          tool_runs[i].status \in {"success", "failed"}
              => tool_runs'[i] = tool_runs[i]]_vars

\* C28: an Approval is created pending and resolved exactly once.  No step
\* changes the decision, response or decision time of a row of approvals
\* that is decided: resolve_approval changes a row only while it is pending.
C28_ResolvedOnce ==
    [][\A i \in DOMAIN approvals :
          approvals[i].decision # "pending" => approvals'[i] = approvals[i]]_vars

\* C29: when the action of a request for the memory tool or for the mac tool
\* is absent or in no table, the governance key is the default that
\* LLM_TO_DB_TOOL records for the tool (memory_write, mac_control), the same
\* for an absent action as for an unrecognized one.
C29_DocumentedDefaultKey ==
    call.fn = "check_approval_needed" =>
        LET llm_tool_name == call.args[1]
            action == call.args[2].action
            db_tool_name == call.result[1]
        IN  /\ (llm_tool_name = "memory" /\ action \notin MemoryActions) =>
                  db_tool_name = LLM_TO_DB_TOOL("memory")
            /\ (llm_tool_name = "mac" /\ action \notin MacActions) =>
                  db_tool_name = LLM_TO_DB_TOOL("mac")

\* The rows of a table that belong to conversation conv
RowsOf(table, conv) == {i \in DOMAIN table : table[i].conversation_id = conv}

\* The rows that a step has added to a table or changed in it
Touched(old, new) == {i \in DOMAIN new : i \notin DOMAIN old \/ new[i] # old[i]}

C30_RowsHaveOneOwner ==
    /\ \A i \in DOMAIN messages :
           Cardinality({c \in DOMAIN callers :
               callers[c].conversation_id = messages[i].conversation_id}) = 1
    /\ \A i \in DOMAIN tool_runs :
           Cardinality({c \in DOMAIN callers :
               callers[c].conversation_id = tool_runs[i].conversation_id}) = 1

C30_OneRunPerExecutedCall ==
    \A c \in DOMAIN callers :
        LET mine == RowsOf(tool_runs, callers[c].conversation_id)
            finalized == {i \in mine : tool_runs[i].finished}
        IN  /\ callers[c].conversation_id # None =>
                   /\ Cardinality(mine) = callers[c].created
                   /\ Cardinality(finalized) = callers[c].completed
            /\ callers[c].created =
                   callers[c].executed + (IF callers[c].pc = "provider" THEN 1 ELSE 0)
            /\ callers[c].completed =
                   callers[c].executed - (IF callers[c].pc = "complete" THEN 1 ELSE 0)
            /\ \A i \in finalized : tool_runs[i].status \in {"success", "failed"}

C30_StepStaysInOwnConversation ==
    \A c \in DOMAIN callers :
        callers'[c] # callers[c] =>
            LET own == callers'[c].conversation_id
            IN  /\ Len(messages') >= Len(messages)
                /\ Len(tool_runs') >= Len(tool_runs)
                /\ \A i \in Touched(messages, messages') :
                       messages'[i].conversation_id = own
                /\ \A i \in Touched(tool_runs, tool_runs') :
                       /\ tool_runs'[i].conversation_id = own
                       /\ i \in DOMAIN tool_runs =>
                              /\ tool_runs[i].conversation_id = own
                              /\ ~tool_runs[i].finished

\* C30: with two conversations driven side by side by two callers on the
\* same store, under any interleaving of their store operations, every
\* Message and every ToolRun belongs to the conversation of exactly one
\* caller, a step of one caller adds or changes only Messages and ToolRuns
\* of its own conversation, and every tool call that a caller has executed
\* has exactly one ToolRun in its conversation, finalized by exactly one
\* call of complete_tool_run.
C30_ConversationsIsolated ==
    /\ [](C30_RowsHaveOneOwner /\ C30_OneRunPerExecutedCall)
    /\ [][C30_StepStaysInOwnConversation]_vars

\* both callers have returned from think after executing a tool call each,
\* and the two ToolRuns were open at the same time: the messages of the
\* first call of the one lie after the user message of the other
C30_Witness ==
    /\ DOMAIN callers = Callers
    /\ \A c \in Callers : callers[c].pc = "returned" /\ callers[c].executed >= 1
    /\ Len(tool_runs) >= 2
    /\ tool_runs[1].conversation_id # tool_runs[2].conversation_id
    /\ tool_runs[1].status = "failed"
    /\ tool_runs[2].status = "success"
    /\ \E i, j, k \in DOMAIN messages :
           /\ i < j /\ j < k
           /\ messages[i].conversation_id = messages[k].conversation_id
           /\ messages[j].conversation_id # messages[i].conversation_id

\* C31: the output stored on every finalized ToolRun is at most 2000
\* characters long, and the output stored by a call of execute_tool is a
\* prefix of the serialized result of the provider, whatever its size.
C31_OutputBounded ==
    call.fn = "execute_tool" =>
        /\ \A i \in DOMAIN tool_runs :
               tool_runs[i].finished => Len(tool_runs[i].output_json) <= 2000
        /\ LET stored == tool_runs[Len(tool_runs)].output_json
           IN  /\ tool_runs[Len(tool_runs)].finished
               /\ Len(stored) <= Len(call.result)
               /\ stored = SubSeq(call.result, 1, Len(stored))
               /\ Len(call.result) <= 2000 => stored = call.result

\* a result whose serialization is longer than the limit was stored, cut to
\* 2000 characters
C31_Witness ==
    /\ call.fn = "execute_tool"
    /\ Len(call.result) > 2000
    /\ Len(tool_runs[Len(tool_runs)].output_json) = 2000

\* C32: a tool whose descriptor in the registry has its enabled flag cleared
\* is never dispatched to a provider by Brain.think.
C32_DisabledNeverDispatched ==
    pc = "provider" =>
        ~\E r \in tools :
            /\ r.tool_name = _resolve_db_tool(parsed.tool_name, parsed.arguments)
            /\ ~r.enabled

\* C33: when Brain.think has raised, the persisted messages and the
\* transcript are what they were before that call: no message was added,
\* and the transcript does not end with a user entry that has no answer.
C33_FailedTurnLeavesNoTrace ==
    (pc = "idle" /\ returned.how = "raised" /\ conversation_id # None) =>
        /\ Len(messages) = log.msgs0
        /\ chat_history # <<>> => Last(chat_history).role # "user"

\* C34: no message is added to a conversation that the Brain has ended.  The
\* conversation that the Brain holds is open, the messages that a running
\* think has persisted and the final message of the last think of the
\* conversation are in the conversation that the Brain holds, and a Brain
\* that holds no conversation has an empty transcript; so the think that
\* follows end_current_conversation persists its messages in a new
\* conversation.
C34_NoMessageAfterEnd ==
    /\ conversation_id # None =>
           /\ conversation_id \in DOMAIN conversations
           /\ ~conversations[conversation_id].ended
           /\ pc \notin {"idle", "exited"} =>
                  \A i \in MessagesOfThink : messages[i].conversation_id = conversation_id
           /\ last_message_id # None =>
                  messages[last_message_id].conversation_id = conversation_id
    /\ conversation_id = None => chat_history = <<>>
    /\ \A i \in DOMAIN messages : messages[i].conversation_id \in DOMAIN conversations

\* the first conversation was ended, and a later think has returned with its
\* messages in the second one
C34_Witness ==
    /\ Len(conversations) = 2
    /\ conversations[1].ended
    /\ conversation_id = 2
    /\ pc = "idle"
    /\ returned.how = "returned"
    /\ \E i, j \in DOMAIN messages :
           /\ i < j
           /\ messages[i].conversation_id = 1
           /\ messages[j].conversation_id = 2

\* C35: the feedback that Brain.rate_last records after a think that
\* returned is linked to the final message of that turn, and to a tool run
\* of that turn or, when the turn executed no tool, to no tool run.
C35_RatesTheLastTurn ==
    [][(Len(feedback') > Len(feedback) /\ returned.how = "returned") =>
          LET fb == feedback'[Len(feedback')]
              RunsOfTurn == (log.runs0 + 1) .. Len(tool_runs)
          IN  /\ fb.message_id = Len(messages)
              /\ fb.tool_run_id # None => fb.tool_run_id \in RunsOfTurn
              /\ RunsOfTurn = {} => fb.tool_run_id = None]_vars

C37_CleanupInvisible ==
    call.fn = "cleanup_expired" =>
        LET before == call.args[1]
            Rows(t) == {t[i] : i \in DOMAIN t}
        IN  /\ \A r \in Rows(before) : r.pin_status = 1 => r \in Rows(memory_items)
            /\ Rows(memory_items) \subseteq Rows(before)
            /\ \A r \in Rows(before) \ Rows(memory_items) : ~Live(r)
            /\ \A f \in DOMAIN SearchFilters :
                   search_memories(memory_items, SearchFilters[f][1], SearchFilters[f][2])
                     = search_memories(before, SearchFilters[f][1], SearchFilters[f][2])
            /\ call.result[1] = Len(before) - Len(memory_items)

\* the cleanup deleted an expired memory and kept an expired pinned one,
\* which the searches list
C37_Witness ==
    /\ call.fn = "cleanup_expired"
    /\ call.result = <<1>>
    /\ Len(memory_items) = 1
    /\ memory_items[1].expires_at = "passed"
    /\ memory_items[1].pin_status = 1
    /\ Len(search_memories(memory_items, 0, 20)) = 1

\* The first token of a command: the characters before the first space that
\* is outside quotes, without the quotes
QuotesBefore(cmd, i) == Cardinality({j \in 1 .. (i - 1) : cmd[j] = "'"})

FirstTokenOf(cmd) ==
    LET ends == {i \in DOMAIN cmd : cmd[i] = " " /\ QuotesBefore(cmd, i) % 2 = 0}
        stop == IF ends = {} THEN Len(cmd) + 1
                ELSE CHOOSE i \in ends : \A j \in ends : i <= j
    IN  SelectSeq(SubSeq(cmd, 1, stop - 1), LAMBDA ch : ch # "'")

====
